---- MODULE Spec2Model ----
(***************************************************************************)
(* Model of the configuration cache of cliq (internal/parser/cache.go),    *)
(* of the command flows that use it (cmd/version.go executeQuery,          *)
(* cmd/config.go runConfigReload) and of the two extractors of package     *)
(* parser (ParseTmuxConfig, ParseNvimConfig).                              *)
(*                                                                         *)
(* Time is counted in whole hours.  The zero time.Time is ZeroTime.        *)
(* A Go pointer or map is an option: None (nil) or Some(v).  A Go map is   *)
(* a set of <<key, value>> pairs.  Strings are valid UTF-8 texts.          *)
(***************************************************************************)
EXTENDS Integers, Sequences, FiniteSets, TLC

VARIABLES now, dir, file, c, cfg, nvimSrc, tmuxSrc, ret, hist

vars == <<now, dir, file, c, cfg, nvimSrc, tmuxSrc, ret, hist>>

----------------------------------------------------------------------------
(* Bounds *)

MaxTime == 3
MaxStaleTime == 27
MaxTTL == 25
MaxQueryTTL == 2
MaxLines == 2
MaxChunks == 2

----------------------------------------------------------------------------
(* Values *)

None == <<>>
Some(x) == <<x>>

ZeroTime == 0
Hour == 1

NvimPath == "nvim"
TmuxPath == "tmux.conf"

\* The models the extractors produce for the two contents a config source
\* takes in this model (version 1 and version 2 of the user's files).
NvimModel(ver) ==
    IF ver = 1
    THEN [Leader |-> " ",
          Keymaps |-> << [Mode |-> "n", Lhs |-> "<leader>w", Rhs |-> ":w<CR>",
                          Description |-> "Save file", Source |-> "nvim/init.lua"] >>,
          Plugins |-> << [Name |-> "telescope.nvim", Enabled |-> TRUE, Config |-> None] >>,
          ConfigPath |-> NvimPath]
    ELSE [Leader |-> ",",
          Keymaps |-> <<>>,
          Plugins |-> <<>>,
          ConfigPath |-> NvimPath]

NvimDefault ==
    [Leader |-> "\\", Keymaps |-> <<>>, Plugins |-> <<>>, ConfigPath |-> NvimPath]

TmuxModel(ver) ==
    IF ver = 1
    THEN [Prefix |-> "C-a",
          Keymaps |-> << [Key |-> "M-Left", Command |-> "select-pane -L",
                          Description |-> "Select pane to the left", Table |-> "root"] >>,
          ConfigPath |-> TmuxPath,
          Options |-> Some({<<"status-left", "b">>})]
    ELSE [Prefix |-> "C-b",
          Keymaps |-> <<>>,
          ConfigPath |-> TmuxPath,
          Options |-> Some({})]

Versions == {1, 2}
NvimConfigs == {NvimModel(v) : v \in Versions}
TmuxConfigs == {TmuxModel(v) : v \in Versions}

----------------------------------------------------------------------------
(* Cache struct and its JSON form *)

\* type Cache struct
Cache(nvim, tmux, lastParsed, hashes, metadata) ==
    [NvimConfig |-> nvim, TmuxConfig |-> tmux, LastParsed |-> lastParsed,
     ConfigHashes |-> hashes, Metadata |-> metadata]

MapLen(m) == IF m = None THEN 0 ELSE Cardinality(m[1])

\* time.Time.MarshalJSON / UnmarshalJSON: an RFC 3339 string
FormatRFC3339(t) == <<"rfc3339", t>>
ParseRFC3339(s) == s[2]

\* Faulty variant of Marshal: tmux_config is never written.
MarshalTmuxDropped(cache) ==
    [nvim_config   |-> cache.NvimConfig,
     tmux_config   |-> None,
     last_parsed   |-> FormatRFC3339(cache.LastParsed),
     config_hashes |-> IF MapLen(cache.ConfigHashes) = 0 THEN None ELSE cache.ConfigHashes,
     metadata      |-> IF MapLen(cache.Metadata) = 0 THEN None ELSE cache.Metadata]

\* json.MarshalIndent(c): a pointer or map tagged omitempty is left out of
\* the object when nil (pointer) or of length 0 (map); last_parsed is always
\* written.
Marshal(cache) ==
    [nvim_config   |-> cache.NvimConfig,
     tmux_config   |-> cache.TmuxConfig,
     last_parsed   |-> FormatRFC3339(cache.LastParsed),
     config_hashes |-> IF MapLen(cache.ConfigHashes) = 0 THEN None ELSE cache.ConfigHashes,
     metadata      |-> IF MapLen(cache.Metadata) = 0 THEN None ELSE cache.Metadata]

\* json.Unmarshal(data, &cache): a key missing from the object leaves the
\* field at its zero value (nil).
Unmarshal(doc) ==
    Cache(doc.nvim_config, doc.tmux_config, ParseRFC3339(doc.last_parsed),
          doc.config_hashes, doc.metadata)

\* The cache file: absent, a complete JSON document ("ok"), a file whose
\* bytes are not a JSON document ("corrupt": truncated or garbled), or a
\* file that cannot be read ("unreadable").
NoDoc == Marshal(Cache(None, None, ZeroTime, None, None))
FileAbsent == [st |-> "absent", doc |-> NoDoc]
FileCorrupt == [st |-> "corrupt", doc |-> NoDoc]
FileOk(doc) == [st |-> "ok", doc |-> doc]

----------------------------------------------------------------------------
(* Operations of cache.go, as functions of the state they read *)

EmptyCache == Cache(None, None, ZeroTime, Some({}), Some({}))

\* Faulty variant of LoadCache: the maps are left nil.
LoadCacheNilMaps(f) ==
    IF f.st = "absent"
    THEN [cache |-> Some(Cache(None, None, ZeroTime, None, None)), err |-> "nil"]
    ELSE IF f.st = "unreadable" THEN [cache |-> None, err |-> "read"]
    ELSE IF f.st = "corrupt" THEN [cache |-> None, err |-> "unmarshal"]
    ELSE LET u == Unmarshal(f.doc)
         IN [cache |-> Some(u), err |-> "nil"]

\* Faulty variant of LoadCache: read and unmarshal errors are swallowed.
LoadCacheSwallowsErrors(f) ==
    IF f.st \in {"absent", "unreadable", "corrupt"}
    THEN [cache |-> Some(EmptyCache), err |-> "nil"]
    ELSE LET u == Unmarshal(f.doc)
         IN [cache |-> Some(Cache(u.NvimConfig, u.TmuxConfig, u.LastParsed,
                                  IF u.ConfigHashes = None THEN Some({}) ELSE u.ConfigHashes,
                                  IF u.Metadata = None THEN Some({}) ELSE u.Metadata)),
             err |-> "nil"]

\* func LoadCache() (*Cache, error)
LoadCache(f) ==
    IF f.st = "absent"
    THEN [cache |-> Some(EmptyCache), err |-> "nil"]
    ELSE IF f.st = "unreadable" THEN [cache |-> None, err |-> "read"]
    ELSE IF f.st = "corrupt" THEN [cache |-> None, err |-> "unmarshal"]
    ELSE LET u == Unmarshal(f.doc)
         IN [cache |-> Some(Cache(u.NvimConfig, u.TmuxConfig, u.LastParsed,
                                  IF u.ConfigHashes = None THEN Some({}) ELSE u.ConfigHashes,
                                  IF u.Metadata = None THEN Some({}) ELSE u.Metadata)),
             err |-> "nil"]

\* The ways the file system can fail one call of Save: os.MkdirAll fails
\* ("mkdir", only when the directory has to be created), os.WriteFile fails
\* to open the file ("open", the file is untouched) or fails after the file
\* was opened with O_TRUNC ("write", the file holds a truncated document).
Faults == {"none", "mkdir", "open", "write"}

\* Faulty variant of Save: a side that is nil is kept from the old file.
SaveMerging(cache, d, f, t, fault) ==
    IF fault = "mkdir" /\ d = "missing"
    THEN [cache |-> cache, dir |-> d, file |-> f, err |-> "mkdir"]
    ELSE LET stamped == [cache EXCEPT !.LastParsed = t]
             old == IF f.st = "ok" THEN Unmarshal(f.doc) ELSE stamped
             merged == [stamped EXCEPT
                          !.NvimConfig = IF @ = None THEN old.NvimConfig ELSE @,
                          !.TmuxConfig = IF @ = None THEN old.TmuxConfig ELSE @]
         IN  IF fault = "open"
             THEN [cache |-> stamped, dir |-> "present", file |-> f, err |-> "open"]
             ELSE IF fault = "write"
             THEN [cache |-> stamped, dir |-> "present", file |-> FileCorrupt, err |-> "write"]
             ELSE [cache |-> stamped, dir |-> "present", file |-> FileOk(Marshal(merged)),
                   err |-> "nil"]

\* Faulty variant of Save: a failed write drops the models of the receiver.
SaveResetsOnError(cache, d, f, t, fault) ==
    IF fault = "mkdir" /\ d = "missing"
    THEN [cache |-> cache, dir |-> d, file |-> f, err |-> "mkdir"]
    ELSE LET stamped == [cache EXCEPT !.LastParsed = t]
             reset == [stamped EXCEPT !.NvimConfig = None, !.TmuxConfig = None]
         IN  IF fault = "open"
             THEN [cache |-> reset, dir |-> "present", file |-> f, err |-> "open"]
             ELSE IF fault = "write"
             THEN [cache |-> reset, dir |-> "present", file |-> FileCorrupt, err |-> "write"]
             ELSE [cache |-> stamped, dir |-> "present", file |-> FileOk(Marshal(stamped)),
                   err |-> "nil"]

\* func (c *Cache) Save() error
\* (writing a file that exists but cannot be read leaves it unreadable)
Save(cache, d, f, t, fault) ==
    IF fault = "mkdir" /\ d = "missing"
    THEN [cache |-> cache, dir |-> d, file |-> f, err |-> "mkdir"]
    ELSE LET stamped == [cache EXCEPT !.LastParsed = t]
         IN  IF fault = "open"
             THEN [cache |-> stamped, dir |-> "present", file |-> f, err |-> "open"]
             ELSE IF fault = "write"
             THEN [cache |-> stamped, dir |-> "present", file |-> FileCorrupt, err |-> "write"]
             ELSE [cache |-> stamped, dir |-> "present",
                   file |-> [st |-> IF f.st = "unreadable" THEN "unreadable" ELSE "ok",
                             doc |-> Marshal(stamped)],
                   err |-> "nil"]

\* func (c *Cache) Clear() error
Clear(cache, f) ==
    LET reset == [cache EXCEPT !.NvimConfig = None, !.TmuxConfig = None,
                               !.ConfigHashes = Some({}), !.LastParsed = ZeroTime]
    IN  IF f.st = "absent"
        THEN [cache |-> reset, file |-> f, err |-> "remove"]
        ELSE [cache |-> reset, file |-> FileAbsent, err |-> "nil"]

\* Faulty variant of IsStale: stale already at exactly ttlHours.
IsStaleAtTTL(cache, ttlHours, t) ==
    IF cache.LastParsed = ZeroTime
    THEN TRUE
    ELSE (t - cache.LastParsed) >= ttlHours * Hour

\* func (c *Cache) IsStale(ttlHours int) bool
\* (ttlHours * Hour stays inside time.Duration for every ttlHours up to
\* 2562047, far above the bounds used here)
IsStale(cache, ttlHours, t) ==
    IF cache.LastParsed = ZeroTime
    THEN TRUE
    ELSE (t - cache.LastParsed) > ttlHours * Hour

----------------------------------------------------------------------------
(* Specification Spec: one caller using the cache API.                      *)
(* c is the caller's *Cache (None: no object).  ret records the last call:  *)
(* its receiver before the call (arg), the object after it (out), its       *)
(* error, and the directory and file it found.  hist is history only:       *)
(* saved is the receiver of the last successful Save as it was when Save    *)
(* was called, with the time of the call, None after a Clear; justSaved     *)
(* holds while no call followed that Save other than LoadCache; allOK       *)
(* holds while no Save or Clear returned an error; replacedTmux holds when  *)
(* the file the last successful Save overwrote held a tmux_config.          *)

\* A cache file left by an earlier run of the program.
EarlierDoc ==
    Marshal(Cache(Some(NvimModel(1)), Some(TmuxModel(1)), 1,
                  Some({<<"tmux.conf", "h1">>}), Some({<<"k", "v">>})))

SrcIdle == [st |-> "missing", ver |-> 1, mtime |-> ZeroTime, inner |-> ZeroTime]

\* func Default() *Config: the cache settings and the two paths
DefaultTTLHours == 24
CfgDefault == [enabled |-> TRUE, ttlHours |-> DefaultTTLHours, nvimPath |-> "", tmuxPath |-> ""]

Call(op, err, arg, out) ==
    [op |-> op, err |-> err, arg |-> arg, out |-> out, fileSt |-> file.st, dirSt |-> dir]

Init ==
    /\ now = 1
    /\ \E f \in {FileAbsent, FileOk(EarlierDoc)} :
         /\ file = f
         /\ dir \in (IF f.st = "absent" THEN {"missing", "present"} ELSE {"present"})
         /\ hist = [saved |-> IF f.st = "ok"
                              THEN Some([snap |-> Unmarshal(f.doc), t0 |-> 1])
                              ELSE None,
                    justSaved |-> FALSE, allOK |-> TRUE, replacedTmux |-> FALSE]
    /\ c = None
    /\ cfg = CfgDefault
    /\ nvimSrc = SrcIdle
    /\ tmuxSrc = SrcIdle
    /\ ret = [op |-> "init", err |-> "nil", arg |-> None, out |-> None,
              fileSt |-> "absent", dirSt |-> "missing"]

\* The clock advances.
Tick ==
    /\ now < MaxTime
    /\ now' = now + 1
    /\ UNCHANGED <<dir, file, c, cfg, nvimSrc, tmuxSrc, ret, hist>>

\* cache := &parser.Cache{NvimConfig: nvimConfig, TmuxConfig: tmuxConfig}
NewCache(nv, tm) ==
    /\ c' = Some(Cache(nv, tm, ZeroTime, None, None))
    /\ ret' = Call("NewCache", "nil", None, c')
    /\ hist' = [hist EXCEPT !.justSaved = FALSE]
    /\ UNCHANGED <<now, dir, file, cfg, nvimSrc, tmuxSrc>>

\* cache, err := parser.LoadCache()
LoadCacheCall ==
    LET r == LoadCache(file)
    IN  /\ c' = r.cache
        /\ ret' = Call("LoadCache", r.err, None, r.cache)
        /\ UNCHANGED <<now, dir, file, cfg, nvimSrc, tmuxSrc, hist>>

\* err := cache.Save()
SaveCall(fault) ==
    /\ c # None
    /\ fault = "mkdir" => dir = "missing"
    /\ LET r == Save(c[1], dir, file, now, fault)
       IN  /\ c' = Some(r.cache)
           /\ dir' = r.dir
           /\ file' = r.file
           /\ ret' = Call("Save", r.err, c, Some(r.cache))
           /\ hist' = IF r.err = "nil"
                      THEN [hist EXCEPT !.saved = Some([snap |-> c[1], t0 |-> now]),
                                        !.justSaved = TRUE,
                                        !.replacedTmux = (file.st = "ok" /\ file.doc.tmux_config # None)]
                      ELSE [hist EXCEPT !.justSaved = FALSE, !.allOK = FALSE]
    /\ UNCHANGED <<now, cfg, nvimSrc, tmuxSrc>>

\* err := cache.Clear()
ClearCall ==
    /\ c # None
    /\ LET r == Clear(c[1], file)
       IN  /\ c' = Some(r.cache)
           /\ file' = r.file
           /\ ret' = Call("Clear", r.err, c, Some(r.cache))
           /\ hist' = [hist EXCEPT !.saved = None, !.justSaved = FALSE,
                                    !.allOK = hist.allOK /\ r.err = "nil"]
    /\ UNCHANGED <<now, dir, cfg, nvimSrc, tmuxSrc>>

Next ==
    \/ Tick
    \/ \E nv \in {None} \cup {Some(m) : m \in NvimConfigs},
          tm \in {None} \cup {Some(m) : m \in TmuxConfigs} : NewCache(nv, tm)
    \/ LoadCacheCall
    \/ \E fault \in Faults : SaveCall(fault)
    \/ ClearCall

Spec == Init /\ [][Next]_vars

----------------------------------------------------------------------------
(* Properties of the cache API, checked under Spec *)

AtomicSave ==
    \/ file.st = "absent"
    \/ /\ file.st = "ok"
       /\ hist.saved # None
       /\ Unmarshal(file.doc).NvimConfig = hist.saved[1].snap.NvimConfig
       /\ Unmarshal(file.doc).TmuxConfig = hist.saved[1].snap.TmuxConfig

\* C6: after Clear on a populated cache the object is fully reset (no
\* NvimConfig, no TmuxConfig, zero LastParsed, empty ConfigHashes and
\* Metadata), the file is gone and LoadCache returns the empty snapshot.
ClearResetsAll ==
    (ret.op = "Clear" /\ ret.arg[1].LastParsed # ZeroTime) =>
        /\ c[1].NvimConfig = None
        /\ c[1].TmuxConfig = None
        /\ c[1].LastParsed = ZeroTime
        /\ MapLen(c[1].ConfigHashes) = 0
        /\ MapLen(c[1].Metadata) = 0
        /\ file.st = "absent"
        /\ LoadCache(file) = [cache |-> Some(EmptyCache), err |-> "nil"]

\* C30: Clear on a cache whose file does not exist returns no error,
\* leaves the snapshot without models and the file absent: a second Clear
\* right after a first ends as the first did.
ClearIdempotent ==
    (ret.op = "Clear" /\ ret.fileSt = "absent") =>
        /\ ret.err = "nil"
        /\ c[1].NvimConfig = None
        /\ c[1].TmuxConfig = None
        /\ c[1].LastParsed = ZeroTime
        /\ file.st = "absent"

\* C7: LoadCache with no cache file returns a non-nil empty snapshot with
\* non-nil empty maps and a nil error, and creates neither file nor directory.
LoadMissingFile ==
    (ret.op = "LoadCache" /\ ret.fileSt = "absent") =>
        /\ ret.err = "nil"
        /\ ret.out = Some(Cache(None, None, ZeroTime, Some({}), Some({})))
        /\ file.st = "absent"
        /\ dir = ret.dirSt

LoadMissingFileWitness ==
    /\ ret.op = "LoadCache"
    /\ ret.fileSt = "absent"
    /\ ret.dirSt = "missing"
    /\ c = ret.out

\* C8: while every Save and Clear succeeded, LoadCache returns the empty
\* snapshot if no Save followed the last Clear, and otherwise exactly the
\* NvimConfig, TmuxConfig and metadata of the most recent Save, a side absent
\* from that Save being absent whatever the overwritten file held.
CacheStateMachine ==
    (ret.op = "LoadCache" /\ hist.allOK) =>
        /\ ret.err = "nil"
        /\ ret.out # None
        /\ IF hist.saved = None
           THEN ret.out[1] = EmptyCache
           ELSE /\ ret.out[1].NvimConfig = hist.saved[1].snap.NvimConfig
                /\ ret.out[1].TmuxConfig = hist.saved[1].snap.TmuxConfig
                /\ IF MapLen(hist.saved[1].snap.Metadata) = 0
                   THEN MapLen(ret.out[1].Metadata) = 0
                   ELSE ret.out[1].Metadata = hist.saved[1].snap.Metadata

CacheStateMachineWitness ==
    /\ ret.op = "LoadCache"
    /\ hist.allOK
    /\ hist.saved # None
    /\ hist.replacedTmux
    /\ hist.saved[1].snap.TmuxConfig = None
    /\ hist.saved[1].snap.NvimConfig # None
    /\ ret.out[1].TmuxConfig = None

\* C9: a Save returns no error only when the snapshot was persisted; a
\* failing Save makes one attempt and undoes nothing (a failed MkdirAll or
\* open leaves the file as it was, a failed write leaves the truncated
\* file), and leaves NvimConfig and TmuxConfig of the object unchanged; a
\* missing directory that can be created is created and the Save succeeds.
SaveFailure ==
    (ret.op = "Save") =>
        /\ c[1].NvimConfig = ret.arg[1].NvimConfig
        /\ c[1].TmuxConfig = ret.arg[1].TmuxConfig
        /\ (ret.err = "nil") => (file = FileOk(Marshal(c[1])))
        /\ (ret.err = "mkdir") => (dir = "missing" /\ ret.dirSt = "missing"
                                    /\ file.st = ret.fileSt /\ c = ret.arg)
        /\ (ret.err = "open") => (file.st = ret.fileSt /\ dir = "present")
        /\ (ret.err = "write") => (file.st = "corrupt" /\ dir = "present")
        /\ (ret.err # "mkdir") => dir = "present"

SaveFailureWitness ==
    /\ ret.op = "Save"
    /\ ret.err = "write"
    /\ ret.dirSt = "missing"
    /\ c[1].NvimConfig # None
    /\ c[1].TmuxConfig # None

----------------------------------------------------------------------------
(* Specification SpecStale: IsStale applied to every lastParsed, clock and  *)
(* ttlHours within the bounds.                                             *)

TTLHours == -1 .. MaxTTL

InitStale ==
    /\ now \in 1 .. MaxStaleTime
    /\ \E lp \in 0 .. MaxStaleTime : c = Some(Cache(None, None, lp, Some({}), Some({})))
    /\ dir = "missing"
    /\ file = FileAbsent
    /\ cfg = CfgDefault
    /\ nvimSrc = SrcIdle
    /\ tmuxSrc = SrcIdle
    /\ hist = [saved |-> None, justSaved |-> FALSE, allOK |-> TRUE, replacedTmux |-> FALSE]
    /\ ret = [op |-> "init", err |-> "nil", arg |-> None, out |-> None,
              fileSt |-> "absent", dirSt |-> "missing"]

\* stale := cache.IsStale(ttlHours)
IsStaleCall(ttlHours) ==
    /\ ret' = [op |-> "IsStale", ttl |-> ttlHours, result |-> IsStale(c[1], ttlHours, now)]
    /\ UNCHANGED <<now, dir, file, c, cfg, nvimSrc, tmuxSrc, hist>>

NextStale == \E ttlHours \in TTLHours : IsStaleCall(ttlHours)

SpecStale == InitStale /\ [][NextStale]_vars

\* C4: IsStale(ttlHours) is true exactly when lastParsed is the zero time or
\* now - lastParsed exceeds ttlHours hours; with ttlHours = 24, 25 hours old
\* is stale and 1 hour old is not; the zero time is stale for every ttlHours.
StaleExactly ==
    (ret.op = "IsStale") =>
        LET lp == c[1].LastParsed
        IN  /\ ret.result <=> (lp = ZeroTime \/ now - lp > ret.ttl)
            /\ (ret.ttl = 24 /\ lp # ZeroTime /\ now - lp = 25) => ret.result
            /\ (ret.ttl = 24 /\ lp # ZeroTime /\ now - lp = 1) => ~ret.result
            /\ (lp = ZeroTime) => ret.result

StaleExactlyWitness ==
    /\ ret.op = "IsStale"
    /\ ret.ttl = 24
    /\ c[1].LastParsed # ZeroTime
    /\ now - c[1].LastParsed = 25
    /\ ret.result

----------------------------------------------------------------------------
(* The configuration sources and the extractors, as the command flows see   *)
(* them.  A source is missing, unreadable or ok; ver is the version of its  *)
(* content; mtime is the modification time os.Stat reports for the          *)
(* configured path (the directory, for Neovim) and inner the modification   *)
(* time of init.lua inside the Neovim directory.                            *)

\* func ParseNvimConfig(configPath string) (*NvimConfig, error)
ParseNvimConfig(src) ==
    [cfg |-> Some(IF src.st = "ok" THEN NvimModel(src.ver) ELSE NvimDefault), err |-> "nil"]

\* func ParseTmuxConfig(configPath string) (*TmuxConfig, error)
ParseTmuxConfig(src) ==
    IF src.st = "ok"
    THEN [cfg |-> Some(TmuxModel(src.ver)), err |-> "nil"]
    ELSE [cfg |-> None, err |-> "read"]

\* Faulty variant of executeQuery: a cached snapshot is used only when
\* neither configured path was modified after it was made.
executeQueryChecksMtime(noCache, fault) ==
    LET cacheOn == ~noCache /\ cfg.enabled
        ld == IF cacheOn THEN LoadCache(file) ELSE [cache |-> None, err |-> "skipped"]
        crash == cacheOn /\ ld.err = "nil" /\ ld.cache = None
        hit == /\ cacheOn /\ ld.err = "nil" /\ ~crash
               /\ ~IsStale(ld.cache[1], cfg.ttlHours, now)
               /\ nvimSrc.mtime <= ld.cache[1].LastParsed
               /\ tmuxSrc.mtime <= ld.cache[1].LastParsed
        nvimCached == IF hit THEN ld.cache[1].NvimConfig ELSE None
        tmuxCached == IF hit THEN ld.cache[1].TmuxConfig ELSE None
        nvimParsed == nvimCached = None /\ cfg.nvimPath # ""
        tmuxParsed == tmuxCached = None /\ cfg.tmuxPath # ""
        nvimConfig == IF nvimParsed THEN ParseNvimConfig(nvimSrc).cfg ELSE nvimCached
        tmuxConfig == IF tmuxParsed THEN ParseTmuxConfig(tmuxSrc).cfg ELSE tmuxCached
        sv == IF cacheOn
              THEN Save(Cache(nvimConfig, tmuxConfig, ZeroTime, None, None), dir, file, now, fault)
              ELSE [cache |-> Cache(nvimConfig, tmuxConfig, ZeroTime, None, None),
                    dir |-> dir, file |-> file, err |-> "skipped"]
    IN  [cacheOn |-> cacheOn, loadErr |-> ld.err, loadedNil |-> ld.cache = None,
         crash |-> crash, hit |-> hit,
         nvimParsed |-> nvimParsed, tmuxParsed |-> tmuxParsed,
         nvimConfig |-> nvimConfig, tmuxConfig |-> tmuxConfig,
         nvimAt |-> IF nvimParsed THEN now
                    ELSE IF nvimConfig # None THEN hist.nvimAt ELSE ZeroTime,
         tmuxAt |-> IF tmuxParsed /\ tmuxConfig # None THEN now
                    ELSE IF tmuxConfig # None THEN hist.tmuxAt ELSE ZeroTime,
         saveErr |-> sv.err, dir |-> sv.dir, file |-> sv.file]

\* func executeQuery(query string, cfg *config.Config) error, up to the
\* call of llm.BuildPrompt.  crash: cache.IsStale is reached with a nil cache.
executeQuery(noCache, fault) ==
    LET cacheOn == ~noCache /\ cfg.enabled
        ld == IF cacheOn THEN LoadCache(file) ELSE [cache |-> None, err |-> "skipped"]
        crash == cacheOn /\ ld.err = "nil" /\ ld.cache = None
        hit == cacheOn /\ ld.err = "nil" /\ ~crash /\ ~IsStale(ld.cache[1], cfg.ttlHours, now)
        nvimCached == IF hit THEN ld.cache[1].NvimConfig ELSE None
        tmuxCached == IF hit THEN ld.cache[1].TmuxConfig ELSE None
        nvimParsed == nvimCached = None /\ cfg.nvimPath # ""
        tmuxParsed == tmuxCached = None /\ cfg.tmuxPath # ""
        nvimConfig == IF nvimParsed THEN ParseNvimConfig(nvimSrc).cfg ELSE nvimCached
        tmuxConfig == IF tmuxParsed THEN ParseTmuxConfig(tmuxSrc).cfg ELSE tmuxCached
        sv == IF cacheOn
              THEN Save(Cache(nvimConfig, tmuxConfig, ZeroTime, None, None), dir, file, now, fault)
              ELSE [cache |-> Cache(nvimConfig, tmuxConfig, ZeroTime, None, None),
                    dir |-> dir, file |-> file, err |-> "skipped"]
    IN  [cacheOn |-> cacheOn, loadErr |-> ld.err, loadedNil |-> ld.cache = None,
         crash |-> crash, hit |-> hit,
         nvimParsed |-> nvimParsed, tmuxParsed |-> tmuxParsed,
         nvimConfig |-> nvimConfig, tmuxConfig |-> tmuxConfig,
         nvimAt |-> IF nvimParsed THEN now
                    ELSE IF nvimConfig # None THEN hist.nvimAt ELSE ZeroTime,
         tmuxAt |-> IF tmuxParsed /\ tmuxConfig # None THEN now
                    ELSE IF tmuxConfig # None THEN hist.tmuxAt ELSE ZeroTime,
         saveErr |-> sv.err, dir |-> sv.dir, file |-> sv.file]

\* func runConfigReload(cmd *cobra.Command, args []string) error.
\* crash: the verbose summary reads nvimConfig.Keymaps or tmuxConfig.Keymaps
\* of a nil config.
runConfigReload(isVerbose, fault) ==
    LET nvimConfig == IF cfg.nvimPath # "" THEN ParseNvimConfig(nvimSrc).cfg ELSE None
        tmuxConfig == IF cfg.tmuxPath # "" THEN ParseTmuxConfig(tmuxSrc).cfg ELSE None
        sv == Save(Cache(nvimConfig, tmuxConfig, ZeroTime, None, None), dir, file, now, fault)
    IN  [nvimConfig |-> nvimConfig, tmuxConfig |-> tmuxConfig,
         saveErr |-> sv.err, dir |-> sv.dir, file |-> sv.file,
         crash |-> sv.err = "nil" /\ isVerbose /\ (nvimConfig = None \/ tmuxConfig = None)]

----------------------------------------------------------------------------
(* Specification SpecQuery: runs of `cliq <query>` and `cliq config         *)
(* reload`, one at a time, over a file system the user also edits.  cfg is  *)
(* the loaded config.toml.  Each run is one process: nothing but the files  *)
(* survives it (c stays None).  hist is history only: nvimAt and tmuxAt are *)
(* the times at which the models held by the cache file were extracted      *)
(* (ZeroTime: none held).                                                   *)

QueryTTLs == 1 .. MaxQueryTTL

\* What a write of the cache file does to the extraction times on record.
HistAfter(saveErr, nvimConfig, tmuxConfig, nvimAt, tmuxAt) ==
    IF saveErr = "nil"
    THEN [nvimAt |-> IF nvimConfig = None THEN ZeroTime ELSE nvimAt,
          tmuxAt |-> IF tmuxConfig = None THEN ZeroTime ELSE tmuxAt]
    ELSE IF saveErr = "write" THEN [nvimAt |-> ZeroTime, tmuxAt |-> ZeroTime]
    ELSE hist

InitQuery ==
    /\ now = 1
    /\ \E f \in {FileAbsent, FileOk(EarlierDoc), FileCorrupt,
                 [st |-> "unreadable", doc |-> EarlierDoc]} :
         /\ file = f
         /\ dir \in (IF f.st = "absent" THEN {"missing", "present"} ELSE {"present"})
         /\ hist = IF f.st \in {"ok", "unreadable"}
                   THEN [nvimAt |-> 1, tmuxAt |-> 1]
                   ELSE [nvimAt |-> ZeroTime, tmuxAt |-> ZeroTime]
    /\ c = None
    /\ cfg \in [enabled : BOOLEAN, ttlHours : QueryTTLs,
                nvimPath : {"", NvimPath}, tmuxPath : {"", TmuxPath}]
    /\ \E st \in {"missing", "ok"} :
         nvimSrc = [st |-> st, ver |-> 1, mtime |-> IF st = "ok" THEN 1 ELSE ZeroTime,
                    inner |-> IF st = "ok" THEN 1 ELSE ZeroTime]
    /\ \E st \in {"missing", "ok", "unreadable"} :
         tmuxSrc = [st |-> st, ver |-> 1, mtime |-> IF st = "missing" THEN ZeroTime ELSE 1,
                    inner |-> ZeroTime]
    /\ ret = [op |-> "init"]

\* The user edits init.lua: in place, or by writing a new file and renaming
\* it over the old one, which alone touches the directory.
EditInitLua(byRename) ==
    /\ nvimSrc.st = "ok"
    /\ nvimSrc' = [nvimSrc EXCEPT !.ver = 3 - @, !.inner = now,
                                  !.mtime = IF byRename THEN now ELSE @]
    /\ ret' = [op |-> "edit"]
    /\ UNCHANGED <<now, dir, file, c, cfg, tmuxSrc, hist>>

\* The user edits the tmux configuration file.
EditTmuxConf ==
    /\ tmuxSrc.st = "ok"
    /\ tmuxSrc' = [tmuxSrc EXCEPT !.ver = 3 - @, !.mtime = now]
    /\ ret' = [op |-> "edit"]
    /\ UNCHANGED <<now, dir, file, c, cfg, nvimSrc, hist>>

\* cliq "<query>"
ExecuteQuery(noCache, fault) ==
    /\ fault = "mkdir" => dir = "missing"
    /\ fault # "none" => (~noCache /\ cfg.enabled)
    /\ \E r \in {executeQuery(noCache, fault)} :
           /\ dir' = r.dir
           /\ file' = r.file
           /\ hist' = HistAfter(r.saveErr, r.nvimConfig, r.tmuxConfig, r.nvimAt, r.tmuxAt)
           /\ ret' = [op |-> "executeQuery", time |-> now,
                      fileSt |-> file.st, lastParsed |-> ParseRFC3339(file.doc.last_parsed),
                      cacheOn |-> r.cacheOn, loadErr |-> r.loadErr, loadedNil |-> r.loadedNil,
                      crash |-> r.crash, hit |-> r.hit,
                      nvimParsed |-> r.nvimParsed, tmuxParsed |-> r.tmuxParsed,
                      nvimConfig |-> r.nvimConfig, tmuxConfig |-> r.tmuxConfig,
                      nvimAt |-> r.nvimAt, tmuxAt |-> r.tmuxAt, saveErr |-> r.saveErr]
    /\ UNCHANGED <<now, c, cfg, nvimSrc, tmuxSrc>>

\* cliq config reload
RunConfigReload(isVerbose, fault) ==
    /\ fault = "mkdir" => dir = "missing"
    /\ \E r \in {runConfigReload(isVerbose, fault)} :
           /\ dir' = r.dir
           /\ file' = r.file
           /\ hist' = HistAfter(r.saveErr, r.nvimConfig, r.tmuxConfig, now, now)
           /\ ret' = [op |-> "runConfigReload", time |-> now, verbose |-> isVerbose,
                      nvimConfig |-> r.nvimConfig, tmuxConfig |-> r.tmuxConfig,
                      saveErr |-> r.saveErr, crash |-> r.crash]
    /\ UNCHANGED <<now, c, cfg, nvimSrc, tmuxSrc>>

NextQuery ==
    \/ Tick
    \/ \E byRename \in BOOLEAN : EditInitLua(byRename)
    \/ EditTmuxConf
    \/ \E noCache \in BOOLEAN, fault \in Faults : ExecuteQuery(noCache, fault)
    \/ \E isVerbose \in BOOLEAN, fault \in Faults : RunConfigReload(isVerbose, fault)

SpecQuery == InitQuery /\ [][NextQuery]_vars

\* C2: a query answered from a fresh cached snapshot persists nothing, so
\* the persisted lastParsed is unchanged by it, and hence no query serves
\* from the cache a model extracted more than TTL hours before it.
QueryPersistsOnlyFresh ==
    (ret.op = "executeQuery" /\ ret.hit) =>
        /\ (~ret.nvimParsed /\ ~ret.tmuxParsed /\ file.st = "ok") =>
               ParseRFC3339(file.doc.last_parsed) = ret.lastParsed
        /\ (~ret.nvimParsed /\ ret.nvimConfig # None) =>
               ret.time <= ret.nvimAt + cfg.ttlHours * Hour
        /\ (~ret.tmuxParsed /\ ret.tmuxConfig # None) =>
               ret.time <= ret.tmuxAt + cfg.ttlHours * Hour

\* C27: a query uses the cached models exactly when the cache is enabled,
\* LoadCache succeeds and the loaded lastParsed is set and at most TTL hours
\* old, whatever the modification times of the configuration files; and it
\* extracts a side exactly when it has no such cached model of that side and
\* the path of the side is configured.
QueryReuseByTTLOnly ==
    [][ (ret'.op = "executeQuery" /\ now' = now) =>
            LET ld == LoadCache(file)
                fresh == /\ ret'.cacheOn
                         /\ ld.err = "nil"
                         /\ ld.cache[1].LastParsed # ZeroTime
                         /\ now - ld.cache[1].LastParsed <= cfg.ttlHours * Hour
                nvimCached == fresh /\ ld.cache[1].NvimConfig # None
                tmuxCached == fresh /\ ld.cache[1].TmuxConfig # None
            IN  /\ ret'.hit = fresh
                /\ ret'.nvimParsed = (~nvimCached /\ cfg.nvimPath # "")
                /\ ret'.tmuxParsed = (~tmuxCached /\ cfg.tmuxPath # "")
                /\ nvimCached => ret'.nvimConfig = ld.cache[1].NvimConfig
                /\ tmuxCached => ret'.tmuxConfig = ld.cache[1].TmuxConfig ]_vars

QueryReuseByTTLOnlyWitness ==
    /\ ret.op = "executeQuery"
    /\ ret.hit
    /\ ~ret.nvimParsed
    /\ ~ret.tmuxParsed
    /\ nvimSrc.mtime > ret.lastParsed
    /\ tmuxSrc.mtime > ret.lastParsed
    /\ ret.nvimConfig # ParseNvimConfig(nvimSrc).cfg
    /\ ret.tmuxConfig # ParseTmuxConfig(tmuxSrc).cfg

\* C10: when the cache file exists but cannot be read or deserialized,
\* LoadCache returns an error and no snapshot, and the query neither crashes
\* nor uses a cached model: it extracts every configured side afresh.
CorruptCacheFallsBack ==
    (ret.op = "executeQuery" /\ ret.cacheOn /\ ret.fileSt \in {"corrupt", "unreadable"}) =>
        /\ ret.loadErr # "nil"
        /\ ret.loadedNil
        /\ ~ret.crash
        /\ ~ret.hit
        /\ ret.nvimParsed <=> (cfg.nvimPath # "")
        /\ ret.tmuxParsed <=> (cfg.tmuxPath # "")
        /\ ret.nvimConfig = IF cfg.nvimPath # "" THEN ParseNvimConfig(nvimSrc).cfg ELSE None
        /\ ret.tmuxConfig = IF cfg.tmuxPath # "" THEN ParseTmuxConfig(tmuxSrc).cfg ELSE None

CorruptCacheFallsBackWitness ==
    /\ ret.op = "executeQuery"
    /\ ret.cacheOn
    /\ ret.fileSt = "corrupt"
    /\ ret.loadErr = "unmarshal"
    /\ ret.nvimParsed
    /\ ret.tmuxParsed
    /\ ret.tmuxConfig # None

\* C15: absence of a side is never an error: a query or a config reload,
\* verbose or not, with a path not configured or a side that fails to
\* extract completes without dereferencing a nil config, extracts the other
\* side if its path is configured, and saves a snapshot without the absent side.
AbsenceIsNoError ==
    (ret.op \in {"executeQuery", "runConfigReload"}) =>
        /\ ~ret.crash
        /\ (ret.op = "runConfigReload" /\ cfg.nvimPath # "") => ret.nvimConfig # None
        /\ (ret.op = "runConfigReload" /\ cfg.tmuxPath # "" /\ tmuxSrc.st = "ok") =>
               ret.tmuxConfig # None
        /\ (ret.saveErr = "nil" /\ file.st = "ok") =>
               /\ file.doc.nvim_config = ret.nvimConfig
               /\ file.doc.tmux_config = ret.tmuxConfig

----------------------------------------------------------------------------
(* Specification SpecRefresh: a cache reloaded by `cliq config reload`,     *)
(* loaded by a caller and asked NeedsRefresh while the user edits the       *)
(* configuration files.                                                     *)

\* os.Stat(path) of the two configured paths
Stat(path) == IF path = NvimPath THEN nvimSrc ELSE tmuxSrc

\* func isFileModifiedSince(path string, since time.Time) (bool, error)
isFileModifiedSince(path, since) ==
    IF Stat(path).st = "missing"
    THEN [modified |-> FALSE, err |-> "stat"]
    ELSE [modified |-> Stat(path).mtime > since, err |-> "nil"]

\* func (c *Cache) NeedsRefresh() bool
NeedsRefresh(cache) ==
    IF /\ cache.NvimConfig # None
       /\ cache.NvimConfig[1].ConfigPath # ""
       /\ isFileModifiedSince(cache.NvimConfig[1].ConfigPath, cache.LastParsed).modified
    THEN TRUE
    ELSE IF /\ cache.TmuxConfig # None
            /\ cache.TmuxConfig[1].ConfigPath # ""
            /\ isFileModifiedSince(cache.TmuxConfig[1].ConfigPath, cache.LastParsed).modified
    THEN TRUE
    ELSE FALSE

InitRefresh ==
    /\ now = 1
    /\ file = FileAbsent
    /\ dir = "missing"
    /\ hist = [nvimAt |-> ZeroTime, tmuxAt |-> ZeroTime]
    /\ c = None
    /\ cfg \in [enabled : {TRUE}, ttlHours : {DefaultTTLHours},
                nvimPath : {"", NvimPath}, tmuxPath : {"", TmuxPath}]
    /\ nvimSrc = [st |-> "ok", ver |-> 1, mtime |-> 1, inner |-> 1]
    /\ \E st \in {"missing", "ok"} :
         tmuxSrc = [st |-> st, ver |-> 1, mtime |-> IF st = "missing" THEN ZeroTime ELSE 1,
                    inner |-> ZeroTime]
    /\ ret = [op |-> "init"]

\* refresh := cache.NeedsRefresh()
NeedsRefreshCall ==
    /\ c # None
    /\ ret' = [op |-> "NeedsRefresh", result |-> NeedsRefresh(c[1])]
    /\ UNCHANGED <<now, dir, file, c, cfg, nvimSrc, tmuxSrc, hist>>

NextRefresh ==
    \/ Tick
    \/ \E byRename \in BOOLEAN : EditInitLua(byRename)
    \/ EditTmuxConf
    \/ RunConfigReload(FALSE, "none")
    \/ LoadCacheCall
    \/ NeedsRefreshCall

SpecRefresh == InitRefresh /\ [][NextRefresh]_vars

\* C5: NeedsRefresh is true whenever, for a side present in the snapshot, a
\* file of that side (the tmux file, or a file such as init.lua inside the
\* Neovim directory) is newer than lastParsed, and false otherwise.
NeedsRefreshExact ==
    (ret.op = "NeedsRefresh") =>
        LET lp == c[1].LastParsed
            nvimNewer == /\ c[1].NvimConfig # None
                         /\ nvimSrc.st = "ok"
                         /\ (nvimSrc.inner > lp \/ nvimSrc.mtime > lp)
            tmuxNewer == /\ c[1].TmuxConfig # None
                         /\ tmuxSrc.st # "missing"
                         /\ tmuxSrc.mtime > lp
        IN  ret.result <=> (nvimNewer \/ tmuxNewer)

----------------------------------------------------------------------------
(* Texts.  The content of a configuration file is a string; the functions   *)
(* of Go's strings package and the regular expressions the extractors use   *)
(* are computed character by character.  Characters are ASCII.              *)

\* A local variable `v := e` that the statements after it use: the value of
\* The({body : v \in {e}}) is body with e for v.
The(S) == CHOOSE x \in S : TRUE

\* the first and the last of a set of positions, 0 when the set is empty
First(S) == IF S = {} THEN 0 ELSE CHOOSE i \in S : \A j \in S : i <= j
Last(S) == IF S = {} THEN 0 ELSE CHOOSE i \in S : \A j \in S : i >= j

Char(s, i) == SubSeq(s, i, i)
Drop(s, n) == SubSeq(s, n + 1, Len(s))
Take(s, n) == SubSeq(s, 1, n)

\* the class \s of regexp, and the space characters of strings.TrimSpace
Spaces == {" ", "\t", "\n", "\r", "\f"}

\* strings.HasPrefix, strings.HasSuffix
HasPrefix(s, p) == Len(s) >= Len(p) /\ Take(s, Len(p)) = p
HasSuffix(s, p) == Len(s) >= Len(p) /\ Drop(s, Len(s) - Len(p)) = p

\* the text s continues with the literal p at position i
LitAt(s, i, p) == i >= 1 /\ i + Len(p) - 1 <= Len(s) /\ SubSeq(s, i, i + Len(p) - 1) = p

\* strings.Index, 1-based; 0 when sub does not occur in s
Index(s, sub) == First({i \in 1 .. (Len(s) - Len(sub) + 1) : LitAt(s, i, sub)})

\* strings.Contains
Contains(s, sub) == Len(sub) = 0 \/ Index(s, sub) > 0

\* strings.TrimPrefix, strings.TrimSuffix
TrimPrefix(s, p) == IF HasPrefix(s, p) THEN Drop(s, Len(p)) ELSE s
TrimSuffix(s, p) == IF HasSuffix(s, p) THEN Take(s, Len(s) - Len(p)) ELSE s

\* the number of characters from position i on that belong to (in = TRUE)
\* or do not belong to (in = FALSE) the class: the greedy x+ and x* of regexp
Run(s, i, class, in) ==
    LET upTo(stop) == IF stop = 0 THEN Len(s) + 1 - i ELSE stop - i
    IN  IF i > Len(s)
        THEN 0
        ELSE upTo(First({j \in i .. Len(s) : (Char(s, j) \in class) # in}))

\* i + the length of \s* at position i
SkipSpaces(s, i) == i + Run(s, i, Spaces, TRUE)

\* the number of characters of the class at the end of s
RunBack(s, class) == Len(s) - Last({j \in 1 .. Len(s) : Char(s, j) \notin class})

\* strings.Trim(s, cutset) with the cutset given as a set of characters
Trim(s, cutset) ==
    LET from(lead) ==
            IF lead = Len(s) THEN "" ELSE SubSeq(s, lead + 1, Len(s) - RunBack(s, cutset))
    IN  from(Run(s, 1, cutset, TRUE))

\* strings.TrimSpace
TrimSpace(s) == Trim(s, Spaces)

\* strings.Replace(s, old, new, n): the first n occurrences, all when n < 0
RECURSIVE Replace(_, _, _, _)
Replace(s, old, new, n) ==
    LET at(i) ==
            IF n = 0 \/ i = 0
            THEN s
            ELSE Take(s, i - 1) \o new \o Replace(Drop(s, i + Len(old) - 1), old, new, n - 1)
    IN  at(Index(s, old))

\* strings.SplitN(s, sep, 2)
SplitN2(s, sep) ==
    LET at(i) == IF i = 0 THEN <<s>> ELSE <<Take(s, i - 1), Drop(s, i + Len(sep) - 1)>>
    IN  at(Index(s, sep))

\* strings.ToLower
Upper == <<"A", "B", "C", "D", "E", "F", "G", "H", "I", "J", "K", "L", "M",
           "N", "O", "P", "Q", "R", "S", "T", "U", "V", "W", "X", "Y", "Z">>
Lower == <<"a", "b", "c", "d", "e", "f", "g", "h", "i", "j", "k", "l", "m",
           "n", "o", "p", "q", "r", "s", "t", "u", "v", "w", "x", "y", "z">>

RECURSIVE ToLower(_)
ToLower(s) ==
    IF Len(s) = 0
    THEN ""
    ELSE LET low(k) == IF k = 0 THEN Char(s, 1) ELSE Lower[k]
         IN  low(First({k \in 1 .. 26 : Upper[k] = Char(s, 1)})) \o ToLower(Drop(s, 1))

----------------------------------------------------------------------------
(* The tmux extractor (internal/parser/tmux.go), on the text of the file.   *)

\* The unanchored regular expressions of extractBinding and extractOption:
\* the length of the match that starts at position i, 0 when there is none.
MatchAt(re, s, i) ==
    IF re = "-T\\s+(\\S+)"
    THEN LET len(k, m) == IF LitAt(s, i, "-T") /\ k >= 1 /\ m >= 1 THEN 2 + k + m ELSE 0
         IN  len(Run(s, i + 2, Spaces, TRUE), Run(s, SkipSpaces(s, i + 2), Spaces, FALSE))
    ELSE IF re = "-[cnt]\\s+"
    THEN LET len(k) ==
                 IF /\ LitAt(s, i, "-") /\ i + 1 <= Len(s)
                    /\ Char(s, i + 1) \in {"c", "n", "t"} /\ k >= 1
                 THEN 2 + k ELSE 0
         IN  len(Run(s, i + 2, Spaces, TRUE))
    ELSE \* "-[gswu]+\\s+"
         LET len(j, k) == IF LitAt(s, i, "-") /\ j >= 1 /\ k >= 1 THEN 1 + j + k ELSE 0
         IN  len(Run(s, i + 1, {"g", "s", "w", "u"}, TRUE),
                 Run(s, i + 1 + Run(s, i + 1, {"g", "s", "w", "u"}, TRUE), Spaces, TRUE))

\* the position of the leftmost match of re in s, 0 when there is none
FindIndex(re, s) == First({i \in 1 .. Len(s) : MatchAt(re, s, i) > 0})

\* regexp.MustCompile(re).ReplaceAllString(s, "")
RECURSIVE ReplaceAllString(_, _)
ReplaceAllString(re, s) ==
    LET at(i) ==
            IF i = 0
            THEN s
            ELSE Take(s, i - 1) \o ReplaceAllString(re, Drop(s, i - 1 + MatchAt(re, s, i)))
    IN  at(FindIndex(re, s))

\* The anchored expression ^(?:w1|w2|...)\s+ with the alternatives in the
\* order written: the length of the match at the start of s, 0 for none.
VerbLen(s, words) ==
    LET len(k) == IF k = 0 THEN 0 ELSE Len(words[k]) + Run(s, Len(words[k]) + 1, Spaces, TRUE)
    IN  len(First({k \in 1 .. Len(words) :
                      HasPrefix(s, words[k]) /\ Run(s, Len(words[k]) + 1, Spaces, TRUE) >= 1}))

\* (?:set-option|set)\s+(?:-g\s+)?<name>\s+(\S+) matched at position i: the
\* captured value, "" when there is no match at i.  p is the position after
\* the verb and its spaces, q the one after the optional -g, v the one of the
\* value.
PrefixAt(s, i, name) ==
    LET try(verb) ==
            IF ~LitAt(s, i, verb)
            THEN ""
            ELSE The({ The({ The({
                IF /\ p > i + Len(verb) /\ LitAt(s, q, name) /\ v > q + Len(name)
                   /\ Run(s, v, Spaces, FALSE) >= 1
                THEN SubSeq(s, v, v + Run(s, v, Spaces, FALSE) - 1)
                ELSE ""
              : v \in {SkipSpaces(s, q + Len(name))} })
              : q \in {IF LitAt(s, p, "-g") /\ SkipSpaces(s, p + 2) > p + 2
                       THEN SkipSpaces(s, p + 2) ELSE p} })
              : p \in {SkipSpaces(s, i + Len(verb))} })
        orElse(a) == IF a # "" THEN a ELSE try("set")
    IN  orElse(try("set-option"))

\* regexp FindStringSubmatch of the expression above: the value captured by
\* the leftmost match, "" when the line has no match
FindPrefix(s, name) ==
    LET cap(i) == IF i = 0 THEN "" ELSE PrefixAt(s, i, name)
    IN  cap(First({i \in 1 .. Len(s) : PrefixAt(s, i, name) # ""}))

\* func (cfg *TmuxConfig) extractPrefix(line string)
extractPrefix(tc, line) ==
    The({ IF matches # ""
          THEN [tc EXCEPT !.Prefix = matches]
          ELSE The({ IF matches2 # "" THEN [tc EXCEPT !.Prefix = matches2] ELSE tc
                   : matches2 \in {FindPrefix(line, "prefix2")} })
        : matches \in {FindPrefix(line, "prefix")} })

\* descriptions := map[string]string{...} of describeCommand, in the order
\* the literal lists its entries
Descriptions == <<
    <<"split-window -h", "Split pane horizontally">>,
    <<"split-window -v", "Split pane vertically">>,
    <<"split-window", "Split pane">>,
    <<"new-window", "Create new window">>,
    <<"kill-pane", "Close current pane">>,
    <<"kill-window", "Close current window">>,
    <<"select-pane -L", "Select pane to the left">>,
    <<"select-pane -R", "Select pane to the right">>,
    <<"select-pane -U", "Select pane above">>,
    <<"select-pane -D", "Select pane below">>,
    <<"resize-pane", "Resize pane">>,
    <<"next-window", "Go to next window">>,
    <<"previous-window", "Go to previous window">>,
    <<"last-window", "Go to last window">>,
    <<"copy-mode", "Enter copy mode">>,
    <<"paste-buffer", "Paste from buffer">>,
    <<"source-file", "Reload config">>,
    <<"command-prompt", "Open command prompt">>,
    <<"display-message", "Display message">>,
    <<"clock-mode", "Show clock">>,
    <<"choose-tree", "Choose session/window">>,
    <<"choose-session", "Choose session">>,
    <<"choose-window", "Choose window">>,
    <<"detach-client", "Detach from session">>,
    <<"rename-window", "Rename current window">>,
    <<"rename-session", "Rename current session">>,
    <<"swap-pane", "Swap panes">>,
    <<"rotate-window", "Rotate panes">>,
    <<"break-pane", "Break pane into window">>,
    <<"join-pane", "Join pane to window">>,
    <<"send-keys", "Send keys to pane">>,
    <<"send-prefix", "Send prefix key">>,
    <<"set-option", "Set option">>,
    <<"show-options", "Show options">>,
    <<"list-keys", "List key bindings">>,
    <<"list-sessions", "List sessions">>,
    <<"list-windows", "List windows">>,
    <<"list-panes", "List panes">> >>

\* The order in which `for pattern, desc := range descriptions` visits the
\* entries is not fixed by the language: order[k] is the entry visited k-th.
\* Two of the orders a run can take: as listed, and the reverse.
Listed == [k \in 1 .. Len(Descriptions) |-> k]
Reversed == [k \in 1 .. Len(Descriptions) |-> Len(Descriptions) + 1 - k]
Orders == {Listed, Reversed}

\* func describeCommand(cmd string) string, the map being visited in `order`
describeCommand(cmd, order) ==
    LET partial(low) ==
            IF Contains(low, "split") THEN "Split pane"
            ELSE IF Contains(low, "select-pane") THEN "Select pane"
            ELSE IF Contains(low, "resize") THEN "Resize pane"
            ELSE IF Contains(low, "window") THEN "Window operation"
            ELSE IF Contains(low, "pane") THEN "Pane operation"
            ELSE ""
        visit(low, k) == IF k # 0 THEN Descriptions[order[k]][2] ELSE partial(low)
    IN  The({ visit(low, First({k \in 1 .. Len(Descriptions) :
                                   HasPrefix(low, Descriptions[order[k]][1])}))
            : low \in {ToLower(cmd)} })

\* func (cfg *TmuxConfig) extractBinding(line string).  l1 is the line after
\* `bind`, t the position of the -T flag in it (0 for none), l2 the line
\* without that flag, l3 the line without -n.
extractBinding(tc, line, order) ==
    The({ The({ The({ The({ The({ The({
        IF Len(parts) < 2
        THEN tc
        ELSE [tc EXCEPT !.Keymaps =
                 Append(@, [Key |-> parts[1], Command |-> TrimSpace(parts[2]),
                            Description |-> describeCommand(TrimSpace(parts[2]), order),
                            Table |-> IF hasN THEN "root"
                                      ELSE IF t > 0
                                      THEN SubSeq(l1, SkipSpaces(l1, t + 2),
                                                  t + MatchAt("-T\\s+(\\S+)", l1, t) - 1)
                                      ELSE "prefix"])]
      : parts \in {SplitN2(TrimSpace(ReplaceAllString("-[cnt]\\s+",
                       TrimPrefix(Replace(l3, " -r ", " ", -1), "-r "))), " ")} })
      : l3 \in {IF hasN THEN TrimPrefix(Replace(l2, " -n ", " ", 1), "-n ") ELSE l2} })
      : hasN \in {Contains(l2, " -n ") \/ HasPrefix(l2, "-n ")} })
      : l2 \in {IF t > 0 THEN ReplaceAllString("-T\\s+(\\S+)", l1) ELSE l1} })
      : t \in {FindIndex("-T\\s+(\\S+)", l1)} })
      : l1 \in {Drop(line, VerbLen(line, <<"bind-key", "bind">>))} })

\* cfg.Options[k] = v
SetOption(tc, k, v) ==
    [tc EXCEPT !.Options = Some({p \in @[1] : p[1] # k} \cup {<<k, v>>})]

\* func (cfg *TmuxConfig) extractOption(line string)
extractOption(tc, line) ==
    The({ IF Len(parts) >= 2
          THEN SetOption(tc, parts[1], Trim(parts[2], {"\"", "'"}))
          ELSE The({ IF Contains(parts[1], "=") /\ Len(kv) = 2
                     THEN SetOption(tc, kv[1], Trim(kv[2], {"\"", "'"}))
                     ELSE tc
                   : kv \in {SplitN2(parts[1], "=")} })
        : parts \in {SplitN2(TrimSpace(ReplaceAllString("-[gswu]+\\s+",
                         Drop(line, VerbLen(line, <<"set-option", "set-window-option",
                                                    "set", "setw">>)))), " ")} })

\* func (cfg *TmuxConfig) parseLine(line string)
parseLine(tc, line, order) ==
    The({ The({
        IF \/ HasPrefix(line, "set-option") \/ HasPrefix(line, "set ")
           \/ HasPrefix(line, "set-window-option") \/ HasPrefix(line, "setw ")
        THEN extractOption(t2, line) ELSE t2
      : t2 \in {IF HasPrefix(line, "bind-key") \/ HasPrefix(line, "bind")
                THEN extractBinding(t1, line, order) ELSE t1} })
      : t1 \in {IF Contains(line, "prefix") THEN extractPrefix(tc, line) ELSE tc} })

\* strings.Split(text, "\n")
RECURSIVE Split(_, _)
Split(s, sep) ==
    LET at(i) ==
            IF i = 0 THEN <<s>> ELSE <<Take(s, i - 1)>> \o Split(Drop(s, i + Len(sep) - 1), sep)
    IN  at(Index(s, sep))

\* for strings.HasSuffix(line, "\\") { line = strings.TrimSuffix(line, "\\") }
StripContinuation(line) == Take(line, Len(line) - RunBack(line, {"\\"}))

\* Faulty variant of parseLines: a line that ends with a backslash is joined
\* with the line after it and the two are parsed as one.
RECURSIVE parseLinesJoining(_, _, _, _)
parseLinesJoining(tc, lines, k, orders) ==
    IF k > Len(lines)
    THEN tc
    ELSE The({ IF line = "" \/ HasPrefix(line, "#")
               THEN parseLinesJoining(tc, lines, k + 1, orders)
               ELSE IF HasSuffix(line, "\\") /\ k < Len(lines)
               THEN parseLinesJoining(
                        parseLine(tc, StripContinuation(line) \o TrimSpace(lines[k + 1]), orders[k]),
                        lines, k + 2, orders)
               ELSE parseLinesJoining(parseLine(tc, StripContinuation(line), orders[k]),
                                      lines, k + 1, orders)
             : line \in {TrimSpace(lines[k])} })

\* The loop of ParseTmuxConfig over the lines from the k-th on; orders[k] is
\* the order of the map visit while the k-th line is parsed.
RECURSIVE parseLines(_, _, _, _)
parseLines(tc, lines, k, orders) ==
    IF k > Len(lines)
    THEN tc
    ELSE The({ IF line = "" \/ HasPrefix(line, "#")
               THEN parseLines(tc, lines, k + 1, orders)
               ELSE parseLines(parseLine(tc, StripContinuation(line), orders[k]),
                               lines, k + 1, orders)
             : line \in {TrimSpace(lines[k])} })

\* Faulty variant of ParseTmuxConfigFile: a file that cannot be read gives
\* the default model and no error.
ParseTmuxConfigFileSwallows(configPath, f, orders) ==
    IF f.st # "ok"
    THEN [cfg |-> Some([Prefix |-> "C-b", Keymaps |-> <<>>,
                        ConfigPath |-> configPath, Options |-> Some({})]),
          err |-> "nil"]
    ELSE [cfg |-> Some(parseLines([Prefix |-> "C-b", Keymaps |-> <<>>,
                                   ConfigPath |-> configPath, Options |-> Some({})],
                                  Split(f.text, "\n"), 1, orders)),
          err |-> "nil"]

\* func ParseTmuxConfig(configPath string) (*TmuxConfig, error), given what
\* os.ReadFile finds at configPath: f.st is "ok", "missing" or "unreadable"
\* and f.text the content of the file.
ParseTmuxConfigFile(configPath, f, orders) ==
    IF f.st # "ok"
    THEN [cfg |-> None, err |-> "read"]
    ELSE [cfg |-> Some(parseLines([Prefix |-> "C-b", Keymaps |-> <<>>,
                                   ConfigPath |-> configPath, Options |-> Some({})],
                                  Split(f.text, "\n"), 1, orders)),
          err |-> "nil"]

----------------------------------------------------------------------------
(* Specification SpecTmux: the user writes a tmux configuration file line   *)
(* by line and ParseTmuxConfig is called on it, any number of times.        *)
(* tmuxSrc is the file (st is "missing", "ok" or "unreadable", text its     *)
(* content), ret the last call with the text it read, hist.prev the result  *)
(* of the call before it when that call read the same file content.         *)

\* The lines the user writes.
TmuxLines == {
    "set -g prefix C-a",
    "bind-key -n M-Left select-pane -L",
    "set -g status-left \"a\"",
    "set -g status-left \"b\"",
    "set -g mouse  on",
    "bind C-n next-window",
    "bind c new-window -n work",
    "bind | split-window -h",
    "bind-key -T copy-mode-vi v send-keys -X begin-selection",
    "bind -n F12 set -g prefix C-q",
    "  # status bar",
    "display-message hello \\",
    "bind-key x kill-pane \\\\" }

LineCount(text) == Len(Split(text, "\n")) - 1

InitTmux ==
    /\ now = 1
    /\ dir = "missing"
    /\ file = FileAbsent
    /\ c = None
    /\ cfg = [CfgDefault EXCEPT !.tmuxPath = TmuxPath]
    /\ nvimSrc = SrcIdle
    /\ tmuxSrc \in {[st |-> "missing", text |-> ""], [st |-> "ok", text |-> ""]}
    /\ hist = [prev |-> None]
    /\ ret = [op |-> "init"]

\* The user appends a line to the file, creating the file if need be.
WriteTmuxLine(line) ==
    /\ tmuxSrc.st # "unreadable"
    /\ LineCount(tmuxSrc.text) < MaxLines
    /\ tmuxSrc' = [st |-> "ok", text |-> tmuxSrc.text \o line \o "\n"]
    /\ hist' = [prev |-> None]
    /\ ret' = [op |-> "edit"]
    /\ UNCHANGED <<now, dir, file, c, cfg, nvimSrc>>

\* The user takes away or gives back the permission to read the file.
ChmodTmux ==
    /\ tmuxSrc.st # "missing"
    /\ tmuxSrc' = [tmuxSrc EXCEPT !.st = IF @ = "ok" THEN "unreadable" ELSE "ok"]
    /\ hist' = [prev |-> None]
    /\ ret' = [op |-> "edit"]
    /\ UNCHANGED <<now, dir, file, c, cfg, nvimSrc>>

\* tmuxConfig, err = parser.ParseTmuxConfig(cfg.Tmux.ConfigPath).  The map of
\* describeCommand is visited only while a line that begins with bind is
\* parsed: the order given for any other line is of no effect and is Listed.
ParseTmuxConfigCall(orders) ==
    /\ \A k \in 1 .. MaxLines :
           (orders[k] # Listed) =>
               /\ k <= LineCount(tmuxSrc.text)
               /\ HasPrefix(TrimSpace(Split(tmuxSrc.text, "\n")[k]), "bind")
    /\ \E r \in {ParseTmuxConfigFile(cfg.tmuxPath, tmuxSrc, orders)} :
           /\ ret' = [op |-> "ParseTmuxConfig", st |-> tmuxSrc.st, text |-> tmuxSrc.text,
                      cfg |-> r.cfg, err |-> r.err]
           /\ hist' = [prev |-> IF ret.op = "ParseTmuxConfig" THEN Some(ret) ELSE None]
    /\ UNCHANGED <<now, dir, file, c, cfg, nvimSrc, tmuxSrc>>

NextTmux ==
    \/ \E line \in TmuxLines : WriteTmuxLine(line)
    \/ ChmodTmux
    \/ \E orders \in [1 .. MaxLines -> Orders] : ParseTmuxConfigCall(orders)

SpecTmux == InitTmux /\ [][NextTmux]_vars

----------------------------------------------------------------------------
(* Properties of the tmux extractor, checked under SpecTmux *)

\* C12: two calls of ParseTmuxConfig on the same unchanged file return equal
\* results: the same error and the same prefix, options and keymap sequence,
\* descriptions included.
TmuxDeterministic ==
    (ret.op = "ParseTmuxConfig" /\ hist.prev # None) =>
        /\ hist.prev[1].text = ret.text
        /\ hist.prev[1].st = ret.st
        /\ hist.prev[1].err = ret.err
        /\ hist.prev[1].cfg = ret.cfg

\* C14: ParseTmuxConfig returns an error, and no config, exactly when the
\* file cannot be read; for a readable file it returns a config and no
\* error, with at most one keymap per line that begins with bind and at most
\* one option per line that begins with set, so that a file of unrecognized
\* lines gives the default prefix, no keymap and no option.
TmuxErrorOnlyUnreadable ==
    (ret.op = "ParseTmuxConfig") =>
        LET isBind(l) == HasPrefix(TrimSpace(l), "bind")
            isSet(l) == HasPrefix(TrimSpace(l), "set")
            lines == Split(ret.text, "\n")
        IN  /\ (ret.err # "nil") <=> (ret.st # "ok")
            /\ (ret.cfg = None) <=> (ret.st # "ok")
            /\ (ret.st = "ok") =>
                   /\ Len(ret.cfg[1].Keymaps) <= Len(SelectSeq(lines, isBind))
                   /\ MapLen(ret.cfg[1].Options) <= Len(SelectSeq(lines, isSet))
                   /\ (\A k \in 1 .. Len(lines) : ~isBind(lines[k]) /\ ~isSet(lines[k])) =>
                          ret.cfg[1].Prefix = "C-b"
                   /\ ret.cfg[1].ConfigPath = TmuxPath

TmuxErrorOnlyUnreadableWitness ==
    /\ ret.op = "ParseTmuxConfig"
    /\ ret.st = "ok"
    /\ ret.text = "display-message hello \\\n  # status bar\n"
    /\ ret.err = "nil"
    /\ ret.cfg # None
    /\ ret.cfg[1].Keymaps = <<>>
    /\ ret.cfg[1].Options = Some({})

\* C16: for every line `bind[-key] [flags] key command...` of the file,
\* in file order, there is exactly one keymap; its key is the first token
\* after the flags (a flag is a token that begins with `-`, or the table name
\* after -T) and its command is the rest of the line after the key, unchanged.
BindKeepsKeyAndCommand ==
    (ret.op = "ParseTmuxConfig" /\ ret.err = "nil") =>
        LET toks(l) == Split(l, " ")
            isFlag(t, k) == HasPrefix(t[k], "-") \/ t[k - 1] = "-T"
            isKey(t, k) == ~isFlag(t, k) /\ \A j \in 2 .. (k - 1) : isFlag(t, j)
            wellFormed(l) == /\ toks(l)[1] \in {"bind", "bind-key"}
                             /\ \E k \in 2 .. (Len(toks(l)) - 1) : isKey(toks(l), k)
            keyIdx(l) == CHOOSE k \in 2 .. (Len(toks(l)) - 1) : isKey(toks(l), k)
            keyEnd(l) == CHOOSE i \in 1 .. Len(l) :
                             Char(l, i) = " " /\ Len(toks(Take(l, i - 1))) = keyIdx(l)
            binds == SelectSeq(Split(ret.text, "\n"), wellFormed)
            kms == ret.cfg[1].Keymaps
        IN  /\ Len(kms) = Len(binds)
            /\ \A k \in 1 .. Len(binds) :
                   /\ kms[k].Key = toks(binds[k])[keyIdx(binds[k])]
                   /\ kms[k].Command = Drop(binds[k], keyEnd(binds[k]))

\* C17: the table of every binding follows from the flags before the key
\* alone: root with -n, the name given with -T, prefix otherwise (stated for
\* the files in which every bind line gave its keymap, in file order).
BindTableFromFlags ==
    (ret.op = "ParseTmuxConfig" /\ ret.err = "nil") =>
        LET toks(l) == Split(l, " ")
            isFlag(t, k) == HasPrefix(t[k], "-") \/ t[k - 1] = "-T"
            isKey(t, k) == ~isFlag(t, k) /\ \A j \in 2 .. (k - 1) : isFlag(t, j)
            wellFormed(l) == /\ toks(l)[1] \in {"bind", "bind-key"}
                             /\ \E k \in 2 .. (Len(toks(l)) - 1) : isKey(toks(l), k)
            keyIdx(l) == CHOOSE k \in 2 .. (Len(toks(l)) - 1) : isKey(toks(l), k)
            flags(l) == SubSeq(toks(l), 2, keyIdx(l) - 1)
            table(l) == IF \E j \in 1 .. Len(flags(l)) : flags(l)[j] = "-n"
                        THEN "root"
                        ELSE IF \E j \in 1 .. (Len(flags(l)) - 1) : flags(l)[j] = "-T"
                        THEN flags(l)[1 + CHOOSE j \in 1 .. (Len(flags(l)) - 1) : flags(l)[j] = "-T"]
                        ELSE "prefix"
            binds == SelectSeq(Split(ret.text, "\n"), wellFormed)
            kms == ret.cfg[1].Keymaps
        IN  (Len(kms) = Len(binds)) =>
                \A k \in 1 .. Len(binds) :
                    /\ kms[k].Table = table(binds[k])
                    /\ (binds[k] = "bind-key -n M-Left select-pane -L") =>
                           /\ kms[k].Key = "M-Left"
                           /\ kms[k].Command = "select-pane -L"
                           /\ kms[k].Description # ""

\* C18: for every option name set by a line `set|set-option|setw|
\* set-window-option [flags] name value`, the options map holds exactly one
\* entry for the name, whose value is the unquoted value of the last such
\* line of the file.
OptionsLastWriteWins ==
    (ret.op = "ParseTmuxConfig" /\ ret.err = "nil") =>
        LET toks(l) == Split(l, " ")
            isName(t, k) == ~HasPrefix(t[k], "-") /\ \A j \in 2 .. (k - 1) : HasPrefix(t[j], "-")
            isSet(l) == /\ toks(l)[1] \in {"set", "set-option", "setw", "set-window-option"}
                        /\ \E k \in 2 .. (Len(toks(l)) - 1) : isName(toks(l), k)
            nameIdx(l) == CHOOSE k \in 2 .. (Len(toks(l)) - 1) : isName(toks(l), k)
            name(l) == toks(l)[nameIdx(l)]
            nameEnd(l) == CHOOSE i \in 1 .. Len(l) :
                              Char(l, i) = " " /\ Len(toks(Take(l, i - 1))) = nameIdx(l)
            value(l) == Trim(TrimSpace(Drop(l, nameEnd(l))), {"\"", "'"})
            sets == SelectSeq(Split(ret.text, "\n"), isSet)
            last(n) == CHOOSE k \in 1 .. Len(sets) :
                           name(sets[k]) = n /\ \A j \in (k + 1) .. Len(sets) : name(sets[j]) # n
            opts == ret.cfg[1].Options[1]
        IN  \A k \in 1 .. Len(sets) :
                \A p \in opts : (p[1] = name(sets[k])) => (p[2] = value(sets[last(p[1])]))

\* C19: the prefix is C-b when no line of the file is a set or set-option
\* assignment of prefix or prefix2, and otherwise the value assigned by the
\* last such line; no other line changes it.
PrefixFromAssignments ==
    (ret.op = "ParseTmuxConfig" /\ ret.err = "nil") =>
        LET toks(l) == Split(l, " ")
            isName(t, k) == ~HasPrefix(t[k], "-") /\ \A j \in 2 .. (k - 1) : HasPrefix(t[j], "-")
            isAssign(l) == /\ toks(l)[1] \in {"set", "set-option"}
                           /\ \E k \in 2 .. (Len(toks(l)) - 1) :
                                  isName(toks(l), k) /\ toks(l)[k] \in {"prefix", "prefix2"}
            value(l) == toks(l)[1 + CHOOSE k \in 2 .. (Len(toks(l)) - 1) : isName(toks(l), k)]
            assigns == SelectSeq(Split(ret.text, "\n"), isAssign)
        IN  ret.cfg[1].Prefix = IF assigns = <<>> THEN "C-b" ELSE value(assigns[Len(assigns)])

\* C24: the description of a binding is the one of the longest entry
\* of the table that is a prefix of its command (`split-window -h` gives
\* "Split pane horizontally", `select-pane -L` gives "Select pane to the
\* left"); a command that no entry is a prefix of, and that holds none of
\* the words of the partial matches, has the empty description.
DescribesLongestPrefix ==
    (ret.op = "ParseTmuxConfig" /\ ret.err = "nil") =>
        LET kms == ret.cfg[1].Keymaps
            entries(cmd) == {k \in 1 .. Len(Descriptions) : HasPrefix(cmd, Descriptions[k][1])}
            longest(cmd) == CHOOSE k \in entries(cmd) :
                                \A j \in entries(cmd) :
                                    Len(Descriptions[j][1]) <= Len(Descriptions[k][1])
            words == {"split", "select-pane", "resize", "window", "pane"}
        IN  \A k \in 1 .. Len(kms) :
                /\ (entries(kms[k].Command) # {}) =>
                       kms[k].Description = Descriptions[longest(kms[k].Command)][2]
                /\ (entries(kms[k].Command) = {} /\ \A w \in words : ~Contains(kms[k].Command, w)) =>
                       kms[k].Description = ""

\* C25: a line that ends with backslashes is parsed on its own, without
\* the backslashes and without the line after it: the keymaps of a file are,
\* in file order, the keymaps its lines give when each is parsed alone (key,
\* command and table), and no command holds a backslash.
ContinuationNeverJoins ==
    (ret.op = "ParseTmuxConfig" /\ ret.err = "nil") =>
        LET RECURSIVE upTo(_, _)
            alone(l) == ParseTmuxConfigFile(TmuxPath, [st |-> "ok", text |-> l],
                                            [k \in 1 .. MaxLines |-> Listed]).cfg[1].Keymaps
            upTo(lines, k) == IF k = 0 THEN <<>> ELSE upTo(lines, k - 1) \o alone(lines[k])
            proj(kms) == [k \in 1 .. Len(kms) |->
                             [Key |-> kms[k].Key, Command |-> kms[k].Command, Table |-> kms[k].Table]]
            lines == Split(ret.text, "\n")
        IN  /\ proj(ret.cfg[1].Keymaps) = proj(upTo(lines, Len(lines)))
            /\ \A k \in 1 .. Len(ret.cfg[1].Keymaps) : ~Contains(ret.cfg[1].Keymaps[k].Command, "\\")

ContinuationNeverJoinsWitness ==
    /\ ret.op = "ParseTmuxConfig"
    /\ ret.text = "bind-key x kill-pane \\\\\nbind | split-window -h\n"
    /\ Len(ret.cfg[1].Keymaps) = 2
    /\ ret.cfg[1].Keymaps[1].Key = "x"
    /\ ret.cfg[1].Keymaps[1].Command = "kill-pane"
    /\ ret.cfg[1].Keymaps[2].Key = "|"

----------------------------------------------------------------------------
(* The Neovim extractor (package parser), on the text of the files          *)

Quotes == {"\"", "'"}
ModeChars == {"n", "v", "i", "x", "s", "o", "t", "c"}

\* `["'](.+?)["']` at position i, the rest of an assignment of the leader:
\* the shortest non-empty capture without a newline that a quote follows,
\* "" when there is none
LazyQuoted(s, i) ==
    LET cap(q) ==
            IF i <= Len(s) /\ Char(s, i) \in Quotes /\ q # 0 THEN SubSeq(s, i + 1, q - 1) ELSE ""
    IN  cap(First({q \in (i + 2) .. Len(s) :
                      /\ Char(s, q) \in Quotes
                      /\ \A j \in (i + 1) .. (q - 1) : Char(s, j) # "\n"}))

\* <lit>\s*=\s*["'](.+?)["'] matched at position i: the capture, "" for none
AssignAt(s, i, lit) ==
    LET val(p) ==
            IF LitAt(s, i, lit) /\ LitAt(s, p, "=")
            THEN LazyQuoted(s, SkipSpaces(s, p + 1))
            ELSE ""
    IN  val(SkipSpaces(s, i + Len(lit)))

\* FindStringSubmatch of the expression above: the capture of the leftmost match
FindAssign(s, lit) ==
    LET cap(i) == IF i = 0 THEN "" ELSE AssignAt(s, i, lit)
    IN  cap(First({i \in 1 .. Len(s) : AssignAt(s, i, lit) # ""}))

\* func (cfg *NvimConfig) extractLeaderFromLua(content string)
extractLeaderFromLua(nc, content) ==
    LET try(lit, orElse) ==
            The({ IF matches # "" THEN [nc EXCEPT !.Leader = matches] ELSE orElse
                : matches \in {FindAssign(content, lit)} })
    IN  try("vim.g.mapleader", try("vim.g[\"mapleader\"]", try("g.mapleader", nc)))

NoMatch == [len |-> 0]

\* `["'](<class>+)["']` at position i, where the class is the set `class`
\* (in = TRUE) or its complement: the capture and the position after the
\* closing quote; len = 0 when there is no match
QuotedAt(s, i, class, in) ==
    LET quoted(n) ==
            IF /\ i <= Len(s) /\ Char(s, i) \in Quotes /\ n >= 1
               /\ i + 1 + n <= Len(s) /\ Char(s, i + 1 + n) \in Quotes
            THEN [len |-> n + 2, text |-> SubSeq(s, i + 1, i + n), next |-> i + n + 2]
            ELSE NoMatch
    IN  quoted(Run(s, i + 1, class, in))

\* The third argument and the optional options table of the expression of
\* extractKeymapsFromLua,
\*   (?:["']([^"']+)["']|function|[^,]+)\s*(?:,\s*\{([^}]*)\})?
\* at position r, after \s* took k characters: the alternatives in the order
\* written, the capture of the first, and the options table when it follows.
\* a is the third argument, e the position after it and its spaces, b the
\* position of the brace and n the length of the table.
KeymapTailAt(s, r, k) ==
    The({ The({ The({ The({
        LET hasOpts == LitAt(s, e, ",") /\ LitAt(s, b, "{") /\ LitAt(s, b + 1 + n, "}")
        IN  [ok |-> a.ok, rhs |-> a.rhs,
             opts |-> IF hasOpts THEN SubSeq(s, b + 1, b + n) ELSE "",
             next |-> IF hasOpts THEN b + n + 2 ELSE e]
      : n \in {Run(s, b + 1, {"}"}, FALSE)} })
      : b \in {SkipSpaces(s, e + 1)} })
      : e \in {SkipSpaces(s, a.next)} })
      : a \in {The({
            IF q.len > 0 THEN [ok |-> TRUE, rhs |-> q.text, next |-> q.next]
            ELSE IF LitAt(s, r, "function") THEN [ok |-> TRUE, rhs |-> "", next |-> r + 8]
            ELSE IF Run(s, r, {","}, FALSE) >= 1
            THEN [ok |-> TRUE, rhs |-> "", next |-> r + Run(s, r, {","}, FALSE)]
            ELSE IF k >= 1 THEN [ok |-> TRUE, rhs |-> "", next |-> r]
            ELSE [ok |-> FALSE, rhs |-> "", next |-> r]
          : q \in {QuotedAt(s, r, Quotes, FALSE)} })} })

\* The expression of extractKeymapsFromLua,
\*   vim\.keymap\.set\s*\(\s*["']([nvixsotc]+)["']\s*,\s*["']([^"']+)["']\s*,\s*...
\* matched at position i: its captures and its length, len = 0 for no match.
\* p1 is the position of the parenthesis, m the mode, c1 the comma after it,
\* l the lhs, c2 the comma after it, r the position of the third argument.
KeymapSetAt(s, i) ==
    IF ~LitAt(s, i, "vim.keymap.set")
    THEN NoMatch
    ELSE The({ The({ The({ The({ The({ The({ The({
        IF /\ LitAt(s, p1, "(")
           /\ m.len > 0 /\ LitAt(s, c1, ",")
           /\ l.len > 0 /\ LitAt(s, c2, ",")
           /\ t.ok
        THEN [len |-> t.next - i, mode |-> m.text, lhs |-> l.text, rhs |-> t.rhs,
              opts |-> t.opts]
        ELSE NoMatch
      : t \in {KeymapTailAt(s, r, r - (c2 + 1))} })
      : r \in {SkipSpaces(s, c2 + 1)} })
      : c2 \in {IF l.len > 0 THEN SkipSpaces(s, l.next) ELSE 0} })
      : l \in {IF m.len > 0 THEN QuotedAt(s, SkipSpaces(s, c1 + 1), Quotes, FALSE)
               ELSE NoMatch} })
      : c1 \in {IF m.len > 0 THEN SkipSpaces(s, m.next) ELSE 0} })
      : m \in {QuotedAt(s, SkipSpaces(s, p1 + 1), ModeChars, TRUE)} })
      : p1 \in {SkipSpaces(s, i + 14)} })

\* desc\s*=\s*["']([^"']+)["'] in the options table: the capture of the
\* leftmost match, "" for none
FindDesc(opts) ==
    LET at(i) == IF ~LitAt(opts, i, "desc")
                 THEN NoMatch
                 ELSE The({ IF LitAt(opts, p, "=")
                            THEN QuotedAt(opts, SkipSpaces(opts, p + 1), Quotes, FALSE)
                            ELSE NoMatch
                          : p \in {SkipSpaces(opts, i + 4)} })
        cap(i) == IF i = 0 THEN "" ELSE at(i).text
    IN  cap(First({i \in 1 .. Len(opts) : at(i).len > 0}))

\* The ways ([nvixsotc]?n?o?remap) can take its three optional characters,
\* in the order of preference of the expression.
RemapChoices == << <<1, 1, 1>>, <<1, 1, 0>>, <<1, 0, 1>>, <<1, 0, 0>>,
                   <<0, 1, 1>>, <<0, 1, 0>>, <<0, 0, 1>>, <<0, 0, 0>> >>

\* ([nvixsotc]?n?o?remap) at position p: the length of the capture, 0 for none
RemapAt(s, p) ==
    LET fits(ch) ==
            /\ ch[1] = 1 => (p <= Len(s) /\ Char(s, p) \in ModeChars)
            /\ ch[2] = 1 => LitAt(s, p + ch[1], "n")
            /\ ch[3] = 1 => LitAt(s, p + ch[1] + ch[2], "o")
            /\ LitAt(s, p + ch[1] + ch[2] + ch[3], "remap")
        len(k) == IF k = 0
                  THEN 0
                  ELSE RemapChoices[k][1] + RemapChoices[k][2] + RemapChoices[k][3] + 5
    IN  len(First({k \in 1 .. Len(RemapChoices) : fits(RemapChoices[k])}))

\* The second expression of extractKeymapsFromLua,
\*   vim\.cmd\s*\[\[?\s*([nvixsotc]?n?o?remap)\s+([^\s]+)\s+([^\]]+)
\* matched at position i: its captures and its length, len = 0 for no match.
\* p1 is the position of the bracket, g1 and n1 the position and the length
\* of the first capture, g2 and n2 those of the second, h the position after
\* the spaces that follow it and n3 the length of the run of [^\]] there.
VimCmdAt(s, i) ==
    IF ~LitAt(s, i, "vim.cmd")
    THEN NoMatch
    ELSE The({ The({ The({ The({ The({ The({ The({
        LET k1 == g2 - (g1 + n1)
            k2 == h - (g2 + n2)
            g3 == IF n3 >= 1 THEN h ELSE h - 1
            e3 == IF n3 >= 1 THEN h + n3 - 1 ELSE h - 1
        IN  IF /\ LitAt(s, p1, "[")
               /\ n1 > 0 /\ k1 >= 1 /\ n2 >= 1 /\ k2 >= 1 /\ (n3 >= 1 \/ k2 >= 2)
            THEN [len |-> e3 + 1 - i, cmd |-> SubSeq(s, g1, g1 + n1 - 1),
                  lhs |-> SubSeq(s, g2, g2 + n2 - 1), rhs |-> SubSeq(s, g3, e3)]
            ELSE NoMatch
      : n3 \in {Run(s, h, {"]"}, FALSE)} })
      : h \in {SkipSpaces(s, g2 + n2)} })
      : n2 \in {Run(s, g2, Spaces, FALSE)} })
      : g2 \in {SkipSpaces(s, g1 + n1)} })
      : n1 \in {RemapAt(s, g1)} })
      : g1 \in {SkipSpaces(s, IF LitAt(s, p1 + 1, "[") THEN p1 + 2 ELSE p1 + 1)} })
      : p1 \in {SkipSpaces(s, i + 7)} })

\* The plugin expression of parseLazyPlugins,
\*   ["']([a-zA-Z0-9_-]+/[a-zA-Z0-9._-]+)["']
\* matched at position i: the capture and the length, len = 0 for no match
Digits == {"0", "1", "2", "3", "4", "5", "6", "7", "8", "9"}
Letters == {Upper[k] : k \in 1 .. 26} \cup {Lower[k] : k \in 1 .. 26}

PluginAt(s, i) ==
    IF i > Len(s) \/ Char(s, i) \notin Quotes
    THEN NoMatch
    ELSE The({ The({
        LET e == i + 2 + n1 + n2
        IN  IF /\ n1 >= 1 /\ LitAt(s, i + 1 + n1, "/") /\ n2 >= 1
               /\ e <= Len(s) /\ Char(s, e) \in Quotes
            THEN [len |-> e + 1 - i, name |-> SubSeq(s, i + 1, e - 1)]
            ELSE NoMatch
      : n2 \in {Run(s, i + 2 + n1, Letters \cup Digits \cup {".", "_", "-"}, TRUE)} })
      : n1 \in {Run(s, i + 1, Letters \cup Digits \cup {"_", "-"}, TRUE)} })

\* the match of one of the three expressions above at position i
ExprAt(re, s, i) ==
    IF re = "vim.keymap.set" THEN KeymapSetAt(s, i)
    ELSE IF re = "vim.cmd" THEN VimCmdAt(s, i)
    ELSE PluginAt(s, i)

\* regexp FindAllStringSubmatch(content, -1): the successive matches of the
\* expression `re` from position i on, none overlapping the one before
RECURSIVE FindAll(_, _, _)
FindAll(re, s, i) ==
    The({ IF j = 0
          THEN <<>>
          ELSE The({ <<m>> \o FindAll(re, s, j + m.len) : m \in {ExprAt(re, s, j)} })
        : j \in {First({k \in i .. Len(s) : ExprAt(re, s, k).len > 0})} })

\* func (cfg *NvimConfig) extractKeymapsFromLua(content, source string)
extractKeymapsFromLua(nc, content, source) ==
    LET fromSet(m) == [Mode |-> m.mode, Lhs |-> m.lhs, Rhs |-> m.rhs,
                       Description |-> IF m.opts # "" THEN FindDesc(m.opts) ELSE "",
                       Source |-> source]
        fromCmd(m) == [Mode |-> IF Char(m.cmd, 1) \in ModeChars THEN Char(m.cmd, 1) ELSE "n",
                       Lhs |-> TrimSpace(m.lhs), Rhs |-> TrimSpace(m.rhs),
                       Description |-> "", Source |-> source]
    IN  The({ The({
            [nc EXCEPT !.Keymaps = @ \o [k \in 1 .. Len(sets) |-> fromSet(sets[k])]
                                     \o [k \in 1 .. Len(cmds) |-> fromCmd(cmds[k])]]
          : cmds \in {FindAll("vim.cmd", content, 1)} })
          : sets \in {FindAll("vim.keymap.set", content, 1)} })

\* Faulty variant of parseLuaWithInterpreter: the content is run.
parseLuaWithInterpreterDoString(content) ==
    [globals |-> {"vim"},
     vim |-> {"g", "keymap", "api", "fn", "opt", "o", "cmd"},
     chunks |-> <<content>>]

\* func (cfg *NvimConfig) parseLuaWithInterpreter(content string): the Lua
\* state as it is when it is closed; chunks are the texts it was given to
\* load or run.
parseLuaWithInterpreter(content) ==
    [globals |-> {"vim"},
     vim |-> {"g", "keymap", "api", "fn", "opt", "o", "cmd"},
     chunks |-> <<>>]

\* func (cfg *NvimConfig) parseLuaConfig(filePath string) error.  x.cfg is
\* the receiver and x.lua the Lua states created so far; f is what
\* os.ReadFile finds at filePath.
parseLuaConfig(x, filePath, f) ==
    IF f.st # "ok"
    THEN [cfg |-> x.cfg, lua |-> x.lua, err |-> "read"]
    ELSE [cfg |-> extractKeymapsFromLua(extractLeaderFromLua(x.cfg, f.text), f.text, filePath),
          lua |-> Append(x.lua, parseLuaWithInterpreter(f.text)),
          err |-> "nil"]

\* let\s+(?:g:)?mapleader\s*=\s*["'](.+?)["'] in a line of init.vim: the
\* capture of the leftmost match, "" for none
FindLetLeader(line) ==
    LET at(i) == IF ~LitAt(line, i, "let")
                 THEN ""
                 ELSE The({ IF p > i + 3
                            THEN AssignAt(line, IF LitAt(line, p, "g:") THEN p + 2 ELSE p,
                                          "mapleader")
                            ELSE ""
                          : p \in {SkipSpaces(line, i + 3)} })
        cap(i) == IF i = 0 THEN "" ELSE at(i)
    IN  cap(First({i \in 1 .. Len(line) : at(i) # ""}))

\* ^([nvixsotc]?)(?:nore)?map\s+(?:<[^>]+>\s+)?(\S+)\s+(.+)$ on a line of
\* init.vim: the captures, len = 0 for no match.  The optional parts are
\* tried taken before skipped, in the order of the expression.
VimMapOf(line) ==
    LET rest(p) ==
            The({ The({
                IF n >= 1 /\ k >= 1 /\ p + n + k <= Len(line)
                THEN [len |-> Len(line), lhs |-> SubSeq(line, p, p + n - 1),
                      rhs |-> Drop(line, p + n + k - 1)]
                ELSE NoMatch
              : k \in {Run(line, p + n, Spaces, TRUE)} })
              : n \in {Run(line, p, Spaces, FALSE)} })
        args(p) ==
            The({ The({ The({ The({
                IF a = p THEN NoMatch
                ELSE IF withTag.len > 0 THEN withTag
                ELSE rest(a)
              : withTag \in {IF /\ LitAt(line, a, "<") /\ n >= 1
                                /\ LitAt(line, a + 1 + n, ">") /\ g > a + 2 + n
                             THEN rest(g) ELSE NoMatch} })
              : g \in {SkipSpaces(line, a + 2 + n)} })
              : n \in {Run(line, a + 1, {">"}, FALSE)} })
              : a \in {SkipSpaces(line, p)} })
        verb(p) ==
            The({ IF withNore.len > 0 THEN withNore
                  ELSE IF LitAt(line, p, "map") THEN args(p + 3)
                  ELSE NoMatch
                : withNore \in {IF LitAt(line, p, "noremap") THEN args(p + 7) ELSE NoMatch} })
    IN  The({ IF withMode.len > 0
              THEN [len |-> withMode.len, mode |-> Char(line, 1),
                    lhs |-> withMode.lhs, rhs |-> withMode.rhs]
              ELSE The({ IF plain.len > 0
                         THEN [len |-> plain.len, mode |-> "",
                               lhs |-> plain.lhs, rhs |-> plain.rhs]
                         ELSE NoMatch
                       : plain \in {verb(1)} })
            : withMode \in {IF Len(line) >= 1 /\ Char(line, 1) \in ModeChars
                            THEN verb(2) ELSE NoMatch} })

\* The loop of parseVimConfig over the lines from the k-th on.
RECURSIVE parseVimLines(_, _, _, _)
parseVimLines(nc, lines, k, filePath) ==
    IF k > Len(lines)
    THEN nc
    ELSE The({
        IF HasPrefix(line, "\"")
        THEN parseVimLines(nc, lines, k + 1, filePath)
        ELSE The({ The({
                parseVimLines(IF m.len > 0
                              THEN [n1 EXCEPT !.Keymaps =
                                       Append(@, [Mode |-> IF m.mode = "" THEN "n" ELSE m.mode,
                                                  Lhs |-> m.lhs, Rhs |-> TrimSpace(m.rhs),
                                                  Description |-> "", Source |-> filePath])]
                              ELSE n1,
                              lines, k + 1, filePath)
              : m \in {VimMapOf(line)} })
              : n1 \in {IF Contains(line, "mapleader") /\ FindLetLeader(line) # ""
                        THEN [nc EXCEPT !.Leader = FindLetLeader(line)] ELSE nc} })
      : line \in {TrimSpace(lines[k])} })

\* func (cfg *NvimConfig) parseVimConfig(filePath string) error
parseVimConfig(x, filePath, f) ==
    IF f.st # "ok"
    THEN [cfg |-> x.cfg, lua |-> x.lua, err |-> "read"]
    ELSE [cfg |-> parseVimLines(x.cfg, Split(f.text, "\n"), 1, filePath),
          lua |-> x.lua, err |-> "nil"]

\* filepath.Join(dir, name), for clean relative paths
Join(d, name) == d \o "/" \o name

\* The loop of parseLazyPlugins over the entries os.ReadDir returned, from
\* the k-th on.  An entry is [name, isDir, st, text].
RECURSIVE parseLazyEntries(_, _, _, _)
parseLazyEntries(nc, pluginDir, entries, k) ==
    IF k > Len(entries)
    THEN nc
    ELSE LET e == entries[k]
             isRepo(m) == Len(Split(m.name, "/")) = 2
             plugin(m) == [Name |-> Split(m.name, "/")[2],
                           Enabled |-> ~Contains(e.text, "enabled = false"),
                           Config |-> None]
         IN  IF e.isDir \/ ~HasSuffix(e.name, ".lua") \/ e.st # "ok"
             THEN parseLazyEntries(nc, pluginDir, entries, k + 1)
             ELSE The({
                 parseLazyEntries(
                     extractKeymapsFromLua(
                         [nc EXCEPT !.Plugins = @ \o [j \in 1 .. Len(names) |-> plugin(names[j])]],
                         e.text, Join(pluginDir, e.name)),
                     pluginDir, entries, k + 1)
               : names \in {SelectSeq(FindAll("plugin", e.text, 1), isRepo)} })

\* Faulty variant of parseLazyPlugins: a plugin whose name is already in the
\* list is not recorded again.
parseLazyPluginsDedup(nc, pluginDir, d) ==
    IF d.st # "ok"
    THEN nc
    ELSE LET dedup(all) ==
                 LET keep == {k \in 1 .. Len(all) :
                                 \A j \in 1 .. (k - 1) : all[j].Name # all[k].Name}
                 IN  [i \in 1 .. Cardinality(keep) |->
                         all[CHOOSE k \in keep : Cardinality({j \in keep : j < k}) = i - 1]]
         IN  The({ [all EXCEPT !.Plugins = dedup(@)]
                 : all \in {parseLazyEntries(nc, pluginDir, d.entries, 1)} })

\* func (cfg *NvimConfig) parseLazyPlugins(pluginDir string); d is what
\* os.ReadDir finds at pluginDir.
parseLazyPlugins(nc, pluginDir, d) ==
    IF d.st # "ok" THEN nc ELSE parseLazyEntries(nc, pluginDir, d.entries, 1)

\* lazyDir and alternativePluginDirs of ParseNvimConfig, relative to configPath
PluginDirs == <<"lua/plugins", "lua/config/plugins", "lua/user/plugins", "after/plugin">>

\* os.Stat(path) succeeds: the directory can be searched and the entry exists
StatOk(tree, entry) == tree.st = "ok" /\ entry.st # "missing"

\* The loop of ParseNvimConfig over the plugin directories from the k-th on.
RECURSIVE parsePluginDirs(_, _, _, _)
parsePluginDirs(nc, configPath, tree, k) ==
    IF k > Len(PluginDirs)
    THEN nc
    ELSE parsePluginDirs(IF StatOk(tree, tree.dirs[k])
                         THEN parseLazyPlugins(nc, Join(configPath, PluginDirs[k]), tree.dirs[k])
                         ELSE nc,
                         configPath, tree, k + 1)

\* Faulty variant of ParseNvimConfigTree: a read failure of init.lua or
\* init.vim is returned as the error of the call, with no config.
ParseNvimConfigTreeStrict(configPath, tree) ==
    The({ The({
        IF x1.err # "nil" \/ x2.err # "nil"
        THEN [cfg |-> None, lua |-> x2.lua, err |-> "read"]
        ELSE [cfg |-> Some(parsePluginDirs(x2.cfg, configPath, tree, 1)),
              lua |-> x2.lua, err |-> "nil"]
      : x2 \in {IF StatOk(tree, tree.initVim)
                THEN parseVimConfig(x1, Join(configPath, "init.vim"), tree.initVim) ELSE x1} })
      : x1 \in {IF StatOk(tree, tree.initLua)
                THEN parseLuaConfig([cfg |-> [Leader |-> "\\", Keymaps |-> <<>>,
                                             Plugins |-> <<>>, ConfigPath |-> configPath],
                                     lua |-> <<>>, err |-> "nil"],
                                    Join(configPath, "init.lua"), tree.initLua)
                ELSE [cfg |-> [Leader |-> "\\", Keymaps |-> <<>>, Plugins |-> <<>>,
                               ConfigPath |-> configPath],
                      lua |-> <<>>, err |-> "nil"]} })

\* func ParseNvimConfig(configPath string) (*NvimConfig, error), given the
\* file tree at configPath: tree.st is "ok", "missing" or "unreadable",
\* initLua and initVim are the two files and dirs the plugin directories.
\* lua lists the Lua states the call created.
ParseNvimConfigTree(configPath, tree) ==
    The({ The({
        [cfg |-> Some(parsePluginDirs(x2.cfg, configPath, tree, 1)),
         lua |-> x2.lua, err |-> "nil"]
      : x2 \in {IF StatOk(tree, tree.initVim)
                THEN parseVimConfig(x1, Join(configPath, "init.vim"), tree.initVim) ELSE x1} })
      : x1 \in {IF StatOk(tree, tree.initLua)
                THEN parseLuaConfig([cfg |-> [Leader |-> "\\", Keymaps |-> <<>>,
                                             Plugins |-> <<>>, ConfigPath |-> configPath],
                                     lua |-> <<>>, err |-> "nil"],
                                    Join(configPath, "init.lua"), tree.initLua)
                ELSE [cfg |-> [Leader |-> "\\", Keymaps |-> <<>>, Plugins |-> <<>>,
                               ConfigPath |-> configPath],
                      lua |-> <<>>, err |-> "nil"]} })

----------------------------------------------------------------------------
(* Specification SpecNvim: the user writes init.lua, init.vim and a plugin  *)
(* spec file piece by piece and ParseNvimConfig is called on the directory. *)
(* nvimSrc is the file tree, ret the last call.  hist is history only: the  *)
(* number of pieces written, and the vim.keymap.set calls written to        *)
(* init.lua (luaCalls) and to the plugin spec file (pluginCalls).           *)

\* Well-formed calls vim.keymap.set(mode, lhs, rhs[, opts]) the user writes:
\* opts is "none" (no table), "silent" (a table without desc) or "desc".
KeymapCalls == {
    [mode |-> "n", lhs |-> "<leader>w", rhs |-> ":w<CR>", opts |-> "desc", desc |-> "Save file"],
    [mode |-> "n", lhs |-> "<leader>q", rhs |-> ":q<CR>", opts |-> "none", desc |-> ""],
    [mode |-> "i", lhs |-> "jk", rhs |-> "<Esc>", opts |-> "silent", desc |-> ""],
    [mode |-> "n", lhs |-> "<leader>f", rhs |-> ":lua require('fzf').files()<CR>",
     opts |-> "desc", desc |-> "Find files"] }

\* The Lua text of a call.
RenderCall(call) ==
    "vim.keymap.set(\"" \o call.mode \o "\", \"" \o call.lhs \o "\", \"" \o call.rhs \o "\""
    \o (IF call.opts = "desc" THEN ", { desc = \"" \o call.desc \o "\" }"
        ELSE IF call.opts = "silent" THEN ", { silent = true }"
        ELSE "")
    \o ")\n"

\* Other pieces of Lua, lines of Vimscript and plugin specs the user writes.
LuaStatements == {
    "vim.g.mapleader = \" \"\n",
    "vim.g[\"mapleader\"] = \",\"\n",
    "vim.keymap.set(\"n\", \"gd\", vim.lsp.buf.definition)\n",
    "os.execute(\"touch /tmp/evaluated\")\n",
    "vim.cmd [[nnoremap <leader>e :Ex<CR>]]\n" }
VimLines == { "let mapleader = \",\"\n", "nnoremap <leader>s :w<CR>\n" }
PluginSpecs == { "return { \"nvim-telescope/telescope.nvim\", enabled = false }\n" }

LuaWrites ==
    {[text |-> RenderCall(call), calls |-> <<call>>] : call \in KeymapCalls}
    \cup {[text |-> t, calls |-> <<>>] : t \in LuaStatements}
PluginWrites ==
    {[text |-> RenderCall(call), calls |-> <<call>>] : call \in KeymapCalls}
    \cup {[text |-> t, calls |-> <<>>] : t \in PluginSpecs}

NoFile == [st |-> "missing", text |-> ""]
NoDir == [st |-> "missing", entries |-> <<>>]

\* The plugin directories before the user writes: none, or lua/plugins with
\* a README and a subdirectory, lua/user/plugins unreadable, and after/plugin
\* with one Lua file.
BareDirs == <<NoDir, NoDir, NoDir, NoDir>>
PopulatedDirs ==
    << [st |-> "ok",
        entries |-> << [name |-> "README.md", isDir |-> FALSE, st |-> "ok",
                        text |-> "See \"folke/lazy.nvim\"\n"],
                       [name |-> "extras", isDir |-> TRUE, st |-> "ok", text |-> ""] >>],
       NoDir,
       [st |-> "unreadable", entries |-> <<>>],
       [st |-> "ok",
        entries |-> << [name |-> "keys.lua", isDir |-> FALSE, st |-> "ok",
                        text |-> "vim.keymap.set(\"n\", \"<C-h>\", \"<C-w>h\")\n"] >>] >>

InitNvim ==
    /\ now = 1
    /\ dir = "missing"
    /\ file = FileAbsent
    /\ c = None
    /\ cfg = [CfgDefault EXCEPT !.nvimPath = NvimPath]
    /\ tmuxSrc = SrcIdle
    /\ \E st \in {"missing", "unreadable", "ok"}, dirs \in {BareDirs, PopulatedDirs} :
         /\ st = "missing" => dirs = BareDirs
         /\ st = "unreadable" => dirs = PopulatedDirs
         /\ nvimSrc = [st |-> st, initLua |-> NoFile, initVim |-> NoFile, dirs |-> dirs]
    /\ hist = [writes |-> 0, luaCalls |-> <<>>, pluginCalls |-> <<>>]
    /\ ret = [op |-> "init"]

\* The user appends a piece of Lua to init.lua, creating it if need be.
WriteInitLua(w) ==
    /\ nvimSrc.st = "ok"
    /\ nvimSrc.initLua.st # "unreadable"
    /\ hist.writes < MaxChunks
    /\ nvimSrc' = [nvimSrc EXCEPT !.initLua = [st |-> "ok", text |-> @.text \o w.text]]
    /\ hist' = [hist EXCEPT !.writes = @ + 1, !.luaCalls = @ \o w.calls]
    /\ ret' = [op |-> "edit"]
    /\ UNCHANGED <<now, dir, file, c, cfg, tmuxSrc>>

\* The user appends a line to init.vim, creating it if need be.
WriteInitVim(line) ==
    /\ nvimSrc.st = "ok"
    /\ hist.writes < MaxChunks
    /\ nvimSrc' = [nvimSrc EXCEPT !.initVim = [st |-> "ok", text |-> @.text \o line]]
    /\ hist' = [hist EXCEPT !.writes = @ + 1]
    /\ ret' = [op |-> "edit"]
    /\ UNCHANGED <<now, dir, file, c, cfg, tmuxSrc>>

\* The user appends a piece of Lua to lua/plugins/telescope.lua, creating
\* the directory and the file if need be.
WritePluginFile(w) ==
    /\ nvimSrc.st = "ok"
    /\ hist.writes < MaxChunks
    /\ LET d == nvimSrc.dirs[1]
           has == \E k \in 1 .. Len(d.entries) : d.entries[k].name = "telescope.lua"
           entries == IF has
                      THEN [k \in 1 .. Len(d.entries) |->
                               IF d.entries[k].name = "telescope.lua"
                               THEN [d.entries[k] EXCEPT !.text = @ \o w.text]
                               ELSE d.entries[k]]
                      ELSE Append(d.entries, [name |-> "telescope.lua", isDir |-> FALSE,
                                              st |-> "ok", text |-> w.text])
       IN  nvimSrc' = [nvimSrc EXCEPT !.dirs[1] = [st |-> "ok", entries |-> entries]]
    /\ hist' = [hist EXCEPT !.writes = @ + 1, !.pluginCalls = @ \o w.calls]
    /\ ret' = [op |-> "edit"]
    /\ UNCHANGED <<now, dir, file, c, cfg, tmuxSrc>>

\* The user takes away or gives back the permission to read init.lua.
ChmodInitLua ==
    /\ nvimSrc.st = "ok"
    /\ nvimSrc.initLua.st # "missing"
    /\ nvimSrc' = [nvimSrc EXCEPT !.initLua.st = IF @ = "ok" THEN "unreadable" ELSE "ok"]
    /\ ret' = [op |-> "edit"]
    /\ UNCHANGED <<now, dir, file, c, cfg, tmuxSrc, hist>>

\* nvimConfig, err = parser.ParseNvimConfig(cfg.Nvim.ConfigPath)
ParseNvimConfigCall ==
    /\ \E r \in {ParseNvimConfigTree(cfg.nvimPath, nvimSrc)} :
           ret' = [op |-> "ParseNvimConfig", cfg |-> r.cfg, err |-> r.err, lua |-> r.lua]
    /\ UNCHANGED <<now, dir, file, c, cfg, nvimSrc, tmuxSrc, hist>>

NextNvim ==
    \/ \E w \in LuaWrites : WriteInitLua(w)
    \/ \E line \in VimLines : WriteInitVim(line)
    \/ \E w \in PluginWrites : WritePluginFile(w)
    \/ ChmodInitLua
    \/ ParseNvimConfigCall

SpecNvim == InitNvim /\ [][NextNvim]_vars

----------------------------------------------------------------------------
(* Properties of the Neovim extractor, checked under SpecNvim *)

NvimNeverErrors ==
    (ret.op = "ParseNvimConfig") =>
        /\ ret.err = "nil"
        /\ ret.cfg # None
        /\ (nvimSrc.st # "ok") =>
               ret.cfg[1] = [Leader |-> "\\", Keymaps |-> <<>>, Plugins |-> <<>>,
                             ConfigPath |-> NvimPath]
        /\ (nvimSrc.st = "ok" /\ nvimSrc.initLua.st = "unreadable") =>
               /\ ret.lua = <<>>
               /\ ret.cfg = ParseNvimConfigTree(NvimPath, [nvimSrc EXCEPT !.initLua = NoFile]).cfg

NvimNeverErrorsWitness ==
    /\ ret.op = "ParseNvimConfig"
    /\ nvimSrc.st = "ok"
    /\ nvimSrc.initLua.st = "unreadable"
    /\ Contains(nvimSrc.initLua.text, "vim.keymap.set(")
    /\ nvimSrc.initVim.st = "ok"
    /\ ret.err = "nil"
    /\ \E k \in 1 .. Len(ret.cfg[1].Keymaps) : ret.cfg[1].Keymaps[k].Source = "nvim/init.vim"
    /\ \E k \in 1 .. Len(ret.cfg[1].Keymaps) :
           ret.cfg[1].Keymaps[k].Source = "nvim/after/plugin/keys.lua"

\* C20: every well-formed call vim.keymap.set(mode, lhs, rhs[, opts]) with
\* string-literal mode, lhs and rhs in a readable init.lua or plugin spec
\* file gives a keymap with that mode, lhs and rhs, the desc of its options
\* table (empty when there is none) and the path of the file as source.
KeymapSetExtracted ==
    (ret.op = "ParseNvimConfig" /\ nvimSrc.st = "ok") =>
        LET expected(call, source) ==
                [Mode |-> call.mode, Lhs |-> call.lhs, Rhs |-> call.rhs,
                 Description |-> IF call.opts = "desc" THEN call.desc ELSE "",
                 Source |-> source]
            kms == ret.cfg[1].Keymaps
        IN  /\ (nvimSrc.initLua.st = "ok") =>
                   \A j \in 1 .. Len(hist.luaCalls) :
                       \E k \in 1 .. Len(kms) :
                           kms[k] = expected(hist.luaCalls[j], "nvim/init.lua")
            /\ \A j \in 1 .. Len(hist.pluginCalls) :
                   \E k \in 1 .. Len(kms) :
                       kms[k] = expected(hist.pluginCalls[j], "nvim/lua/plugins/telescope.lua")

\* C22: the keymaps are one record per keymap declaration of init.lua,
\* init.vim and the plugin files, identical declarations included, the
\* records of init.lua before those of init.vim before those of the plugin
\* files.
KeymapsExhaustive ==
    (ret.op = "ParseNvimConfig" /\ nvimSrc.st = "ok") =>
        LET kms == ret.cfg[1].Keymaps
            from(source) == {k \in 1 .. Len(kms) : kms[k].Source = source}
            decls(f, lit) == IF f.st # "ok" THEN {}
                             ELSE {i \in 1 .. Len(f.text) : LitAt(f.text, i, lit)}
            luaDecls(f) == decls(f, "vim.keymap.set(") \cup decls(f, "vim.cmd [[")
            plugin == nvimSrc.dirs[1].entries
        IN  /\ Cardinality(from("nvim/init.lua")) = Cardinality(luaDecls(nvimSrc.initLua))
            /\ Cardinality(from("nvim/init.vim")) = Cardinality(decls(nvimSrc.initVim, "nnoremap "))
            /\ \A k \in 1 .. Len(plugin) :
                   (plugin[k].name = "telescope.lua") =>
                       Cardinality(from("nvim/lua/plugins/telescope.lua")) = Cardinality(luaDecls(plugin[k]))
            /\ \A i \in from("nvim/init.lua"), j \in from("nvim/init.vim") : i < j
            /\ \A i \in from("nvim/init.vim"), j \in from("nvim/lua/plugins/telescope.lua") : i < j

\* C26: with init.lua readable and no init.vim, the leader is the value of
\* the first leader assignment in the text of init.lua, whichever of the
\* forms vim.g.mapleader and vim.g["mapleader"] it has, and `\` when
\* init.lua has no leader assignment.
LeaderFirstInText ==
    (/\ ret.op = "ParseNvimConfig"
     /\ nvimSrc.st = "ok"
     /\ nvimSrc.initLua.st = "ok"
     /\ nvimSrc.initVim.st = "missing") =>
        LET text == nvimSrc.initLua.text
            dotted == Index(text, "vim.g.mapleader = \" \"")
            table == Index(text, "vim.g[\"mapleader\"] = \",\"")
        IN  ret.cfg[1].Leader =
                IF dotted = 0 /\ table = 0 THEN "\\"
                ELSE IF table = 0 \/ (dotted # 0 /\ dotted < table) THEN " "
                ELSE ","

----------------------------------------------------------------------------
(* Specification SpecPlugins: the user writes plugin specs piece by piece   *)
(* into two files of lua/plugins and ParseNvimConfig is called on the       *)
(* directory.  hist.files[name] lists the pieces written to the file.       *)

\* The pieces the user writes: a text, the repo component of every
\* `owner/repo` string literal in it, in text order, and whether it holds
\* the text `enabled = false`.
PluginPieces == {
    [text |-> "{ \"nvim-telescope/telescope.nvim\", dependencies = { 'nvim-lua/plenary.nvim' }, enabled = false },\n",
     names |-> <<"telescope.nvim", "plenary.nvim">>, marker |-> TRUE],
    [text |-> "{ \"folke/tokyonight.nvim\", priority = 1000 },\n",
     names |-> <<"tokyonight.nvim">>, marker |-> FALSE],
    [text |-> "-- enabled = false\n", names |-> <<>>, marker |-> TRUE],
    [text |-> "require(\"lazy\").setup(\"plugins\")\n", names |-> <<>>, marker |-> FALSE] }

\* The two files, and the names os.ReadDir can return in lua/plugins, in the
\* order it returns them (sorted by filename).
PluginFiles == {"colors.lua", "telescope.lua"}
DirOrder == <<"README.md", "colors.lua", "extras", "telescope.lua">>

InitPlugins ==
    /\ now = 1
    /\ dir = "missing"
    /\ file = FileAbsent
    /\ c = None
    /\ cfg = [CfgDefault EXCEPT !.nvimPath = NvimPath]
    /\ tmuxSrc = SrcIdle
    /\ \E dirs \in {BareDirs, PopulatedDirs} :
         nvimSrc = [st |-> "ok", initLua |-> NoFile, initVim |-> NoFile, dirs |-> dirs]
    /\ hist = [writes |-> 0, files |-> [f \in PluginFiles |-> <<>>]]
    /\ ret = [op |-> "init"]

\* The user appends a piece to lua/plugins/<name>, creating the directory
\* and the file if need be.
WritePluginSpec(name, piece) ==
    /\ hist.writes < MaxChunks
    /\ LET d == nvimSrc.dirs[1]
           had(n) == \E k \in 1 .. Len(d.entries) : d.entries[k].name = n
           old(n) == d.entries[CHOOSE k \in 1 .. Len(d.entries) : d.entries[k].name = n]
           new(n) == IF n # name THEN old(n)
                     ELSE [name |-> n, isDir |-> FALSE, st |-> "ok",
                           text |-> (IF had(n) THEN old(n).text ELSE "") \o piece.text]
           there(n) == had(n) \/ n = name
           names == SelectSeq(DirOrder, there)
       IN  nvimSrc' = [nvimSrc EXCEPT !.dirs[1] =
                          [st |-> "ok", entries |-> [k \in 1 .. Len(names) |-> new(names[k])]]]
    /\ hist' = [hist EXCEPT !.writes = @ + 1, !.files[name] = Append(@, piece)]
    /\ ret' = [op |-> "edit"]
    /\ UNCHANGED <<now, dir, file, c, cfg, tmuxSrc>>

NextPlugins ==
    \/ \E name \in PluginFiles, piece \in PluginPieces : WritePluginSpec(name, piece)
    \/ ParseNvimConfigCall

SpecPlugins == InitPlugins /\ [][NextPlugins]_vars

\* C21: the plugins are, file by file in the order the files are read, one
\* record per `owner/repo` string literal of the file, named by the repo
\* component, repeated literals included; the records of a file are all
\* disabled when the text `enabled = false` occurs in that file and all
\* enabled otherwise, whatever the other file holds.
PluginsPerFile ==
    (ret.op = "ParseNvimConfig") =>
        LET RECURSIVE upTo(_, _)
            upTo(f, k) == IF k = 0 THEN <<>> ELSE upTo(f, k - 1) \o hist.files[f][k].names
            namesOf(f) == upTo(f, Len(hist.files[f]))
            marked(f) == \E k \in 1 .. Len(hist.files[f]) : hist.files[f][k].marker
            records(f) == [k \in 1 .. Len(namesOf(f)) |->
                              [Name |-> namesOf(f)[k], Enabled |-> ~marked(f), Config |-> None]]
        IN  ret.cfg[1].Plugins = records("colors.lua") \o records("telescope.lua")

PluginsPerFileWitness ==
    /\ ret.op = "ParseNvimConfig"
    /\ Len(hist.files["colors.lua"]) = 1
    /\ Len(hist.files["telescope.lua"]) = 1
    /\ ret.cfg[1].Plugins =
           << [Name |-> "tokyonight.nvim", Enabled |-> TRUE, Config |-> None],
              [Name |-> "telescope.nvim", Enabled |-> FALSE, Config |-> None],
              [Name |-> "plenary.nvim", Enabled |-> FALSE, Config |-> None] >>

----------------------------------------------------------------------------
(* Specification SpecNvimCalls: a caller calls ParseNvimConfig several      *)
(* times while the user edits lua/plugins/telescope.lua, and keeps the      *)
(* pointers it was returned.  c is the heap of NvimConfig instances (a      *)
(* pointer is an index), hist.calls lists for every call the file tree it   *)
(* read, the pointer it returned and the value the instance then had.       *)

MaxCalls == 2

\* Faulty variant of ParseNvimConfigOn: the instance is allocated once and
\* every later call fills and returns that one.
ParseNvimConfigOnShared(heap, configPath, tree) ==
    The({ IF heap = <<>>
          THEN [heap |-> <<r.cfg[1]>>, ptr |-> 1, err |-> r.err]
          ELSE [heap |-> [heap EXCEPT ![1] = r.cfg[1]], ptr |-> 1, err |-> r.err]
        : r \in {ParseNvimConfigTree(configPath, tree)} })

\* ParseNvimConfig with its allocation: cfg := &NvimConfig{...} is a new
\* instance of the heap, which the call fills and returns.
ParseNvimConfigOn(heap, configPath, tree) ==
    The({ [heap |-> Append(heap, r.cfg[1]), ptr |-> Len(heap) + 1, err |-> r.err]
        : r \in {ParseNvimConfigTree(configPath, tree)} })

InitNvimCalls ==
    /\ now = 1
    /\ dir = "missing"
    /\ file = FileAbsent
    /\ c = <<>>
    /\ cfg = [CfgDefault EXCEPT !.nvimPath = NvimPath]
    /\ tmuxSrc = SrcIdle
    /\ \E dirs \in {BareDirs, PopulatedDirs} :
         nvimSrc = [st |-> "ok", initLua |-> NoFile, initVim |-> NoFile, dirs |-> dirs]
    /\ hist = [writes |-> 0, files |-> [f \in PluginFiles |-> <<>>], calls |-> <<>>]
    /\ ret = [op |-> "init"]

\* nvimConfig, err := parser.ParseNvimConfig(path), the pointer kept
ParseNvimConfigKeep ==
    /\ Len(hist.calls) < MaxCalls
    /\ \E r \in {ParseNvimConfigOn(c, cfg.nvimPath, nvimSrc)} :
           /\ c' = r.heap
           /\ ret' = [op |-> "ParseNvimConfig", ptr |-> r.ptr, err |-> r.err]
           /\ hist' = [hist EXCEPT !.calls =
                           Append(@, [tree |-> nvimSrc, ptr |-> r.ptr, value |-> r.heap[r.ptr]])]
    /\ UNCHANGED <<now, dir, file, cfg, nvimSrc, tmuxSrc>>

NextNvimCalls ==
    \/ \E piece \in PluginPieces : WritePluginSpec("telescope.lua", piece)
    \/ ParseNvimConfigKeep

SpecNvimCalls == InitNvimCalls /\ [][NextNvimCalls]_vars

----------------------------------------------------------------------------
(* Specification SpecInteractive: the interactive mode (cmd/interactive.go). *)
(* c is the model m of the program, as the last Update returned it.          *)
(* hist.init tells whether the command initLLM is still to deliver its       *)
(* initMsg, hist.inflight lists the commands queryLLM returned that have not *)
(* delivered their responseMsg yet, hist.running is FALSE once the program   *)
(* has quit or panicked.  ret is the last message handled.  The viewport,    *)
(* the spinner and the two parsed configurations are left out.               *)

MaxInput == 2

\* The characters the user types and the widths of the terminal.
Runes == {"d", " "}
Widths == {80, 120}

\* func initialModel() model
initialModel ==
    [textarea |-> "", history |-> <<>>, loading |-> FALSE, err |-> "nil",
     width |-> 0, llmClient |-> None, ready |-> FALSE]

\* func (m model) queryLLM(query string) tea.Cmd: the receiver is a copy of
\* the model of Update; the query is appended to the history of the copy,
\* which the returned command alone holds, with the client of the copy.
queryLLM(m, query) ==
    [query |-> query, llmClient |-> m.llmClient,
     history |-> Append(m.history, [Query |-> query, Response |-> ""])]

\* m.textarea.Update(msg) for a key that inserts the text t: nothing beyond
\* the character limit of the text area.
Insert(m, t) ==
    IF Len(m.textarea) + Len(t) <= MaxInput THEN [m EXCEPT !.textarea = @ \o t] ELSE m

InitInteractive ==
    /\ now = 1
    /\ dir = "missing"
    /\ file = FileAbsent
    /\ cfg = CfgDefault
    /\ nvimSrc = SrcIdle
    /\ tmuxSrc = SrcIdle
    /\ c = initialModel
    /\ hist = [init |-> "pending", inflight |-> <<>>, running |-> TRUE]
    /\ ret = [op |-> "init"]

\* Update(tea.KeyMsg) for a key that is none of Ctrl+C, Esc and Enter: the
\* text area takes it unless a query is loading.
KeyRunes(r) ==
    /\ hist.running
    /\ c' = IF ~c.loading THEN Insert(c, r) ELSE c
    /\ ret' = [op |-> "KeyRunes"]
    /\ UNCHANGED <<now, dir, file, cfg, nvimSrc, tmuxSrc, hist>>

\* Update(tea.KeyMsg) for Enter
KeyEnter ==
    /\ hist.running
    /\ \E query \in {TrimSpace(c.textarea)} :
           IF ~c.loading /\ c.ready /\ query # ""
           THEN /\ c' = [c EXCEPT !.loading = TRUE, !.textarea = ""]
                /\ hist' = [hist EXCEPT !.inflight = Append(@, queryLLM(c', query))]
                /\ ret' = [op |-> "KeyEnter", started |-> TRUE]
           ELSE /\ c' = IF ~c.loading THEN Insert(c, "\n") ELSE c
                /\ hist' = hist
                /\ ret' = [op |-> "KeyEnter", started |-> FALSE]
    /\ UNCHANGED <<now, dir, file, cfg, nvimSrc, tmuxSrc>>

\* Update(tea.KeyMsg) for Ctrl+C or Esc: tea.Quit
KeyCtrlC ==
    /\ hist.running
    /\ hist' = [hist EXCEPT !.running = FALSE]
    /\ ret' = [op |-> "KeyCtrlC"]
    /\ UNCHANGED <<now, dir, file, c, cfg, nvimSrc, tmuxSrc>>

\* Update(tea.WindowSizeMsg)
WindowSizeMsg(width) ==
    /\ hist.running
    /\ c' = [c EXCEPT !.width = width, !.ready = TRUE]
    /\ ret' = [op |-> "WindowSizeMsg"]
    /\ UNCHANGED <<now, dir, file, cfg, nvimSrc, tmuxSrc, hist>>

\* initLLM delivers its initMsg and Update handles it: outcome is "ok", or
\* "notfound" (no model file) or "load" (llm.NewClient failed).
InitMsg(outcome) ==
    /\ hist.running
    /\ hist.init = "pending"
    /\ c' = IF outcome # "ok"
            THEN [c EXCEPT !.err = outcome]
            ELSE [c EXCEPT !.llmClient = Some("client"), !.ready = TRUE]
    /\ hist' = [hist EXCEPT !.init = "done"]
    /\ ret' = [op |-> "initMsg", outcome |-> outcome]
    /\ UNCHANGED <<now, dir, file, cfg, nvimSrc, tmuxSrc>>

\* The oldest command in flight runs m.llmClient.Query and Update handles
\* its responseMsg.  outcome is "ok", "err", or "nil": with a nil client
\* Query reads the fields of the client when llama-cli is installed, and
\* answers from the mock responses when it is not.  panic tells that the
\* program ended in a run-time panic.
ResponseMsg(outcome) ==
    /\ hist.running
    /\ hist.inflight # <<>>
    /\ (outcome = "nil") => Head(hist.inflight).llmClient = None
    /\ \E cmd \in {Head(hist.inflight)} :
         \E panic \in {outcome = "nil" \/ (outcome = "ok" /\ c.history = <<>>)} :
           /\ c' = IF outcome = "nil" THEN c
                   ELSE IF outcome = "err" THEN [c EXCEPT !.loading = FALSE, !.err = "query"]
                   ELSE IF panic THEN [c EXCEPT !.loading = FALSE]
                   ELSE [c EXCEPT !.loading = FALSE,
                                  !.history = Append(@, [Query |-> @[Len(@)].Query,
                                                         Response |-> "answer"])]
           /\ hist' = [hist EXCEPT !.inflight = Tail(@), !.running = ~panic]
           /\ ret' = [op |-> "responseMsg", outcome |-> outcome, query |-> cmd.query,
                      before |-> c.history, panic |-> panic]
    /\ UNCHANGED <<now, dir, file, cfg, nvimSrc, tmuxSrc>>

NextInteractive ==
    \/ \E r \in Runes : KeyRunes(r)
    \/ KeyEnter
    \/ KeyCtrlC
    \/ \E width \in Widths : WindowSizeMsg(width)
    \/ \E outcome \in {"ok", "notfound", "load"} : InitMsg(outcome)
    \/ \E outcome \in {"ok", "err", "nil"} : ResponseMsg(outcome)

SpecInteractive == InitInteractive /\ [][NextInteractive]_vars

\* C28: when Update handles a responseMsg without error, the history of the
\* model is not empty and its last entry holds the query the response
\* answers; the handler does not panic and leaves that query paired with
\* the response at the end of the history.
ResponseFindsQuery ==
    (ret.op = "responseMsg" /\ ret.outcome = "ok") =>
        /\ ~ret.panic
        /\ ret.before # <<>>
        /\ ret.before[Len(ret.before)].Query = ret.query
        /\ c.history # <<>>
        /\ c.history[Len(c.history)] = [Query |-> ret.query, Response |-> "answer"]

\* C29: every command queryLLM has started holds the client an error-free
\* initMsg installed, and at most one is in flight.
QueryOnlyWithClient ==
    /\ Len(hist.inflight) <= 1
    /\ \A k \in 1 .. Len(hist.inflight) : hist.inflight[k].llmClient # None

====
